---- MODULE Spec2Model ----
(***************************************************************************)
(* MTG Commander Tracker: the storage layer (database.py), the /log modal  *)
(* handler (cogs/game_logging.py) and the scoring table (config.py).       *)
(*                                                                         *)
(* One aiosqlite connection is shared by every handler.  `conn' is what a  *)
(* statement on that connection sees (committed rows plus the rows of the  *)
(* open transaction); `disk' is what the last commit() made durable.       *)
(* sqlite3 opens a transaction implicitly before an INSERT or UPDATE and   *)
(* keeps it open until commit(); a statement that violates a constraint is *)
(* undone alone (ON CONFLICT ABORT) and raises IntegrityError, the earlier *)
(* statements of the transaction stay pending.  The code never calls       *)
(* rollback().  Foreign keys are declared but PRAGMA foreign_keys is never *)
(* switched on, so they are not enforced.                                  *)
(***************************************************************************)
EXTENDS Integers, Sequences, FiniteSets, TLC

VARIABLES conn, disk, ret, aborted, now, tasks, history

vars == <<conn, disk, ret, aborted, now, tasks, history>>

(***************************************************************************)
(* Bounds of the model.                                                    *)
(***************************************************************************)
MaxGames == 2

MaxAssign == 1

MaxLogged == 1

MaxCalls == 4

MaxRunning == 2

MaxPlayed == 3

MaxStreak == 4

MaxDecked == 6

(***************************************************************************)
(* Values.                                                                 *)
(***************************************************************************)
None == "None"

GameTypes == {"1v1", "multiplayer"}

\* A text is a sequence of characters; Whitespace is what str.strip() removes.
Whitespace == {" ", "\t"}

DEFAULT_STEREOTYPES ==
  << <<"C", "l", "a", "i", "m", "s", " ", "t", "o", " ", "n", "o", "t", " ", "b", "e", " ", "t", "h", "e", " ", "t", "h", "r", "e", "a", "t">>,
     <<"N", "e", "v", "e", "r", " ", "s", "w", "i", "n", "g", "s">>,
     <<"S", "a", "i", "d", " ", "\"", "n", "o", "t", " ", "o", "p", "t", "i", "m", "a", "l", "\"">>,
     <<"M", "i", "s", "s", "e", "d", " ", "t", "h", "e", "i", "r", " ", "t", "r", "i", "g", "g", "e", "r", "s">> >>

RECURSIVE lstrip(_)
lstrip(s) ==
  IF s # <<>> /\ Head(s) \in Whitespace THEN lstrip(Tail(s)) ELSE s

RECURSIVE rstrip(_)
rstrip(s) ==
  IF s # <<>> /\ s[Len(s)] \in Whitespace
    THEN rstrip(SubSeq(s, 1, Len(s) - 1))
    ELSE s

\* variant: only leading whitespace is removed
strip_leading(s) == lstrip(s)

strip(s) == rstrip(lstrip(s))

Min(S) == CHOOSE x \in S : \A y \in S : x <= y

(***************************************************************************)
(* The schema: six tables, each a sequence of rows in rowid order.  Every  *)
(* id is INTEGER PRIMARY KEY AUTOINCREMENT and no row is ever deleted, so  *)
(* the id of a row is its position.                                        *)
(***************************************************************************)
EmptyDb ==
  [ players          |-> <<>>,
    decks            |-> <<>>,
    games            |-> <<>>,
    game_placements  |-> <<>>,
    stereotypes      |-> <<>>,
    game_stereotypes |-> <<>> ]

\* _seed_stereotypes on an empty table, then commit.
SeededDb == [EmptyDb EXCEPT !.stereotypes = DEFAULT_STEREOTYPES]

(***************************************************************************)
(* Statements.  Each returns [ok, db, lastrowid]; ok = FALSE is an         *)
(* IntegrityError and leaves db as it was before the statement.            *)
(***************************************************************************)
Raise(db) == [ok |-> FALSE, db |-> db, lastrowid |-> 0]

Inserted(db, table, row) ==
  [ ok        |-> TRUE,
    db        |-> [db EXCEPT ![table] = Append(@, row)],
    lastrowid |-> Len(db[table]) + 1 ]

\* SELECT * FROM players WHERE discord_id = ? ; fetchone(): the row id, 0 if none
SelectPlayer(db, discord_id) ==
  LET hit == {i \in DOMAIN db.players : db.players[i].discord_id = discord_id}
  IN  IF hit = {} THEN 0 ELSE Min(hit)

\* variant: the players table without UNIQUE on discord_id
InsertPlayer_NoUnique(db, discord_id, username) ==
  Inserted(db, "players", [discord_id |-> discord_id, username |-> username])

\* INSERT INTO players (discord_id, username): discord_id TEXT UNIQUE NOT NULL
InsertPlayer(db, discord_id, username) ==
  IF \E i \in DOMAIN db.players : db.players[i].discord_id = discord_id
    THEN Raise(db)
    ELSE Inserted(db, "players",
                  [discord_id |-> discord_id, username |-> username])

\* variant: the stored username is never refreshed
UpdateUsername_Never(db, id, username) == db

\* UPDATE players SET username = ? WHERE id = ?
UpdateUsername(db, id, username) ==
  [db EXCEPT !.players =
     [i \in DOMAIN @ |-> IF i = id THEN [@[i] EXCEPT !.username = username]
                                   ELSE @[i]]]

\* SELECT * FROM decks WHERE player_id = ? AND commander_name = ?
SelectDeck(db, player_id, commander_name) ==
  LET hit == {i \in DOMAIN db.decks :
                /\ db.decks[i].player_id = player_id
                /\ db.decks[i].commander_name = commander_name}
  IN  IF hit = {} THEN 0 ELSE Min(hit)

\* INSERT INTO decks (player_id, commander_name): UNIQUE(player_id, commander_name)
InsertDeck(db, player_id, commander_name) ==
  IF SelectDeck(db, player_id, commander_name) # 0
    THEN Raise(db)
    ELSE Inserted(db, "decks",
                  [player_id |-> player_id, commander_name |-> commander_name])

\* INSERT INTO games: CHECK (game_type IN ('1v1','multiplayer')),
\* win_condition NOT NULL, played_at DEFAULT CURRENT_TIMESTAMP
InsertGame(db, game_type, win_condition, duration_minutes, t) ==
  IF game_type \notin GameTypes \/ win_condition = None
    THEN Raise(db)
    ELSE Inserted(db, "games",
                  [ game_type        |-> game_type,
                    played_at        |-> t,
                    duration_minutes |-> duration_minutes,
                    win_condition    |-> win_condition ])

PlacementCheck(placement) == placement >= 1 /\ placement <= 4

PlacementUnique(db, game_id, player_id) ==
  ~ \E i \in DOMAIN db.game_placements :
        /\ db.game_placements[i].game_id = game_id
        /\ db.game_placements[i].player_id = player_id

\* INSERT INTO game_placements: CHECK (placement BETWEEN 1 AND 4),
\* UNIQUE(game_id, player_id)
InsertPlacement(db, game_id, player_id, deck_id, placement) ==
  IF ~ PlacementCheck(placement) \/ ~ PlacementUnique(db, game_id, player_id)
    THEN Raise(db)
    ELSE Inserted(db, "game_placements",
                  [ game_id   |-> game_id,
                    player_id |-> player_id,
                    deck_id   |-> deck_id,
                    placement |-> placement ])

\* variant: the stereotypes table without UNIQUE on name
InsertStereotype_NoUnique(db, name) == Inserted(db, "stereotypes", name)

\* INSERT INTO stereotypes (name): name TEXT UNIQUE NOT NULL
InsertStereotype(db, name) ==
  IF \E i \in DOMAIN db.stereotypes : db.stereotypes[i] = name
    THEN Raise(db)
    ELSE Inserted(db, "stereotypes", name)

\* variant: a stereotype is stored once for a game and a player
InsertGameStereotype_Once(db, game_id, player_id, stereotype_id) ==
  LET row == [ game_id       |-> game_id,
               player_id     |-> player_id,
               stereotype_id |-> stereotype_id ]
  IN  IF \E i \in DOMAIN db.game_stereotypes : db.game_stereotypes[i] = row
        THEN [ok |-> TRUE, db |-> db, lastrowid |-> 0]
        ELSE Inserted(db, "game_stereotypes", row)

\* INSERT INTO game_stereotypes (game_id, player_id, stereotype_id)
InsertGameStereotype(db, game_id, player_id, stereotype_id) ==
  Inserted(db, "game_stereotypes",
           [ game_id       |-> game_id,
             player_id     |-> player_id,
             stereotype_id |-> stereotype_id ])

(***************************************************************************)
(* Handlers run to completion.  Each maps the connection state (c, d) to   *)
(* [conn, disk, raised, value]: commit() copies conn to disk; an exception *)
(* leaves the handler with whatever it had executed still pending in conn. *)
(***************************************************************************)
Outcome(c, d, raised, value) ==
  [conn |-> c, disk |-> d, raised |-> raised, value |-> value]

Player(id, discord_id, username) ==
  [id |-> id, discord_id |-> discord_id, username |-> username]

GetOrCreatePlayer(c, d, discord_id, username) ==
  LET row == SelectPlayer(c, discord_id) IN
  IF row # 0
    THEN IF c.players[row].username # username
           THEN LET u == UpdateUsername(c, row, username)
                IN  Outcome(u, u, FALSE, Player(row, discord_id, username))
           ELSE Outcome(c, d, FALSE, Player(row, discord_id, username))
    ELSE LET ins == InsertPlayer(c, discord_id, username) IN
         IF ins.ok
           THEN Outcome(ins.db, ins.db, FALSE,
                        Player(ins.lastrowid, discord_id, username))
           ELSE Outcome(c, d, TRUE, None)

Deck(id, player_id, commander_name) ==
  [id |-> id, player_id |-> player_id, commander_name |-> commander_name]

GetOrCreateDeck(c, d, player_id, commander_name) ==
  LET name == strip(commander_name)
      row  == SelectDeck(c, player_id, name)
  IN  IF row # 0
        THEN Outcome(c, d, FALSE, Deck(row, c.decks[row].player_id,
                                       c.decks[row].commander_name))
        ELSE LET ins == InsertDeck(c, player_id, name) IN
             IF ins.ok
               THEN Outcome(ins.db, ins.db, FALSE,
                            Deck(ins.lastrowid, player_id, name))
               ELSE Outcome(c, d, TRUE, None)

\* for player_id, deck_id, placement in placements: INSERT ...
RECURSIVE InsertPlacements(_, _, _, _)
InsertPlacements(db, game_id, placements, i) ==
  IF i > Len(placements)
    THEN [ok |-> TRUE, db |-> db]
    ELSE LET ins == InsertPlacement(db, game_id, placements[i][1],
                                    placements[i][2], placements[i][3])
         IN  IF ins.ok
               THEN InsertPlacements(ins.db, game_id, placements, i + 1)
               ELSE [ok |-> FALSE, db |-> ins.db]

\* value is the id of the returned Game; game_id is the id the attempt's
\* game row got (0 if the INSERT INTO games itself raised).
CreateGame(c, d, game_type, win_condition, placements, duration_minutes, t) ==
  LET g == InsertGame(c, game_type, win_condition, duration_minutes, t) IN
  IF ~ g.ok
    THEN [conn |-> c, disk |-> d, raised |-> TRUE, value |-> None, game_id |-> 0]
    ELSE LET p == InsertPlacements(g.db, g.lastrowid, placements, 1) IN
         IF p.ok
           THEN [conn |-> p.db, disk |-> p.db, raised |-> FALSE,
                 value |-> g.lastrowid, game_id |-> g.lastrowid]
           ELSE [conn |-> p.db, disk |-> d, raised |-> TRUE,
                 value |-> None, game_id |-> g.lastrowid]

\* try: INSERT, commit, return Stereotype; except IntegrityError: return None
AddStereotype(c, d, name) ==
  LET ins == InsertStereotype(c, strip(name)) IN
  IF ins.ok
    THEN Outcome(ins.db, ins.db, FALSE, ins.lastrowid)
    ELSE Outcome(c, d, FALSE, None)

RECURSIVE InsertGameStereotypes(_, _, _, _, _)
InsertGameStereotypes(db, game_id, player_id, stereotype_ids, i) ==
  IF i > Len(stereotype_ids)
    THEN db
    ELSE InsertGameStereotypes(
           InsertGameStereotype(db, game_id, player_id, stereotype_ids[i]).db,
           game_id, player_id, stereotype_ids, i + 1)

AssignStereotypes(c, d, game_id, player_id, stereotype_ids) ==
  LET db == InsertGameStereotypes(c, game_id, player_id, stereotype_ids, 1)
  IN  Outcome(db, db, FALSE, None)

(***************************************************************************)
(* GameLogModal.on_submit (the /log form).  A submission carries the game  *)
(* type of the modal, the parsed player inputs (parse_player_names gives   *)
(* either all ("id", n) from mentions or all ("name", s)), the deck field  *)
(* split at its commas, the win condition and the raw duration text.       *)
(*                                                                         *)
(* Discord's directory: guild.members for names (none in a DM, guild =     *)
(* FALSE), fetch_user for ids.                                             *)
(***************************************************************************)
guild_members ==
  << [id |-> "100", name |-> "ann", display_name |-> "Annie", global_name |-> None],
     [id |-> "200", name |-> "bob", display_name |-> "bob", global_name |-> None],
     [id |-> "300", name |-> "cat", display_name |-> "cat", global_name |-> None],
     [id |-> "400", name |-> "dan", display_name |-> "dan", global_name |-> None] >>

\* str.lower() on the names in use
lower(s) == IF s = "Annie" THEN "annie" ELSE IF s = "BOB" THEN "bob" ELSE s

\* for m in guild.members: if m.name.lower() == input_lower or ...: break
FindMember(input_value) ==
  LET hit == {i \in DOMAIN guild_members :
                \/ lower(guild_members[i].name) = lower(input_value)
                \/ lower(guild_members[i].display_name) = lower(input_value)
                \/ /\ guild_members[i].global_name # None
                   /\ lower(guild_members[i].global_name) = lower(input_value)}
  IN  IF hit = {} THEN 0 ELSE Min(hit)

\* client.fetch_user(int(id)): the account, whose display_name is its
\* global name or else its name; 0 is discord.NotFound
FetchUser(input_value) ==
  LET hit == {i \in DOMAIN guild_members : guild_members[i].id = input_value}
  IN  IF hit = {} THEN 0 ELSE Min(hit)

UserDisplayName(i) ==
  IF guild_members[i].global_name # None
    THEN guild_members[i].global_name
    ELSE guild_members[i].name

\* one player input resolved to (discord_id, username), or the error title
Resolve(input, guild) ==
  IF input[1] = "id"
    THEN LET u == FetchUser(input[2]) IN
         IF u = 0 THEN [ok |-> FALSE, title |-> "User Not Found"]
         ELSE [ok |-> TRUE, discord_id |-> guild_members[u].id,
               username |-> UserDisplayName(u)]
    ELSE IF ~ guild THEN [ok |-> FALSE, title |-> "Error"]
    ELSE LET m == FindMember(input[2]) IN
         IF m = 0 THEN [ok |-> FALSE, title |-> "Player Not Found"]
         ELSE [ok |-> TRUE, discord_id |-> guild_members[m].id,
               username |-> guild_members[m].display_name]

\* the first input that does not resolve, 0 if all do
FirstUnresolved(player_inputs, guild) ==
  LET bad == {i \in DOMAIN player_inputs : ~ Resolve(player_inputs[i], guild).ok}
  IN  IF bad = {} THEN 0 ELSE Min(bad)

Digits ==
  ("0" :> 0) @@ ("1" :> 1) @@ ("2" :> 2) @@ ("3" :> 3) @@ ("4" :> 4) @@
  ("5" :> 5) @@ ("6" :> 6) @@ ("7" :> 7) @@ ("8" :> 8) @@ ("9" :> 9)

RECURSIVE DecimalValue(_, _)
DecimalValue(s, acc) ==
  IF s = <<>> THEN acc
  ELSE DecimalValue(Tail(s), 10 * acc + Digits[Head(s)])

\* int(text): surrounding whitespace and one sign are accepted;
\* ok = FALSE is ValueError
int(text) ==
  LET t == strip(text)
      signed == t # <<>> /\ Head(t) \in {"-", "+"}
      digits == IF signed THEN Tail(t) ELSE t
  IN  IF digits = <<>> \/ \E i \in DOMAIN digits : digits[i] \notin DOMAIN Digits
        THEN [ok |-> FALSE, value |-> 0]
        ELSE IF signed /\ Head(t) = "-"
               THEN [ok |-> TRUE, value |-> 0 - DecimalValue(digits, 0)]
               ELSE [ok |-> TRUE, value |-> DecimalValue(digits, 0)]

\* duration = None; if value: duration = int(value); if duration <= 0: raise
\* ok = FALSE is the "Invalid Duration" reply
\* variant: an unparsable or non-positive duration is stored as absent
ParseDuration_Lenient(text) ==
  IF text = <<>> THEN [ok |-> TRUE, duration |-> None]
  ELSE LET v == int(text) IN
       IF ~ v.ok \/ v.value <= 0
         THEN [ok |-> TRUE, duration |-> None]
         ELSE [ok |-> TRUE, duration |-> v.value]

ParseDuration(text) ==
  IF text = <<>> THEN [ok |-> TRUE, duration |-> None]
  ELSE LET v == int(text) IN
       IF ~ v.ok \/ v.value <= 0
         THEN [ok |-> FALSE, duration |-> None]
         ELSE [ok |-> TRUE, duration |-> v.value]

min_players(game_type) == IF game_type = "1v1" THEN 2 ELSE 3

max_players(game_type) == IF game_type = "1v1" THEN 2 ELSE 4

\* variant: the decks taken from the end of the field
DeckNames_Reversed(decks) ==
  [i \in DOMAIN decks |-> strip(decks[Len(decks) + 1 - i])]

\* deck_names = [d.strip() for d in self.decks.value.split(",")]
DeckNames(decks) == [i \in DOMAIN decks |-> strip(decks[i])]

\* the error embed of a submission's validation, None if it passes
Validate(sub) ==
  LET n == Len(sub.players) IN
  IF n < min_players(sub.game_type) \/ n > max_players(sub.game_type)
    THEN "Invalid Player Count"
  ELSE IF Len(DeckNames(sub.decks)) # n
    THEN "Deck Count Mismatch"
  ELSE IF ~ ParseDuration(sub.duration).ok
    THEN "Invalid Duration"
  ELSE IF FirstUnresolved(sub.players, sub.guild) # 0
    THEN Resolve(sub.players[FirstUnresolved(sub.players, sub.guild)],
                 sub.guild).title
  ELSE None

\* for i, ((discord_id, username), deck_name) in enumerate(zip(...)):
\*     get_or_create_player, get_or_create_deck, placements.append(...)
RECURSIVE Register(_, _, _, _, _, _)
Register(c, d, users, deck_names, i, placements) ==
  IF i > Len(users)
    THEN [conn |-> c, disk |-> d, placements |-> placements]
    ELSE LET user   == users[i]
             player == GetOrCreatePlayer(c, d, user.discord_id, user.username)
             deck   == GetOrCreateDeck(player.conn, player.disk,
                                       player.value.id, deck_names[i])
         IN  Register(deck.conn, deck.disk, users, deck_names, i + 1,
                      Append(placements, <<player.value.id, deck.value.id, i>>))

OnSubmit(c, d, sub, t) ==
  LET title == Validate(sub) IN
  IF title # None
    THEN [conn |-> c, disk |-> d, status |-> "rejected", value |-> title,
          game_id |-> 0]
    ELSE LET resolved_users ==
               [i \in DOMAIN sub.players |-> Resolve(sub.players[i], sub.guild)]
             reg  == Register(c, d, resolved_users, DeckNames(sub.decks), 1, <<>>)
             game == CreateGame(reg.conn, reg.disk, sub.game_type,
                                sub.win_condition, reg.placements,
                                ParseDuration(sub.duration).duration, t)
         IN  [conn |-> game.conn, disk |-> game.disk,
              status |-> IF game.raised THEN "raised" ELSE "ok",
              value |-> game.value, game_id |-> game.game_id]

(***************************************************************************)
(* Scoring (config.SCORING) and Database._calculate_player_points.         *)
(***************************************************************************)
\* variant: a point for the loser of a 1v1 game
SCORING_Consolation ==
  [ multiplayer |-> (1 :> 3) @@ (2 :> 2) @@ (3 :> 1) @@ (4 :> 0),
    1v1         |-> (1 :> 3) @@ (2 :> 1) ]

SCORING ==
  [ multiplayer |-> (1 :> 3) @@ (2 :> 2) @@ (3 :> 1) @@ (4 :> 0),
    1v1         |-> (1 :> 3) @@ (2 :> 0) ]

\* dict.get(key, default)
Get(dict, key, default) == IF key \in DOMAIN dict THEN dict[key] ELSE default

\* variant: a placement outside the table scores one point
Score_Default1(game_type, placement) ==
  Get(Get(SCORING, game_type, <<>>), placement, 1)

\* SCORING.get(game_type, {}).get(placement, 0)
Score(game_type, placement) == Get(Get(SCORING, game_type, <<>>), placement, 0)

\* the rows of game_placements gp JOIN games g ON gp.game_id = g.id
\* WHERE gp.player_id = ?, summed in rowid order
RECURSIVE PointsFrom(_, _, _, _)
PointsFrom(db, player_id, i, points) ==
  IF i > Len(db.game_placements)
    THEN points
    ELSE LET gp == db.game_placements[i] IN
         IF gp.player_id = player_id /\ gp.game_id \in DOMAIN db.games
           THEN PointsFrom(db, player_id, i + 1,
                  points + Score(db.games[gp.game_id].game_type, gp.placement))
           ELSE PointsFrom(db, player_id, i + 1, points)

calculate_player_points(db, player_id) == PointsFrom(db, player_id, 1, 0)

(***************************************************************************)
(* The state after Database.connect(): schema created, stereotypes seeded  *)
(* and committed, no handler running.                                      *)
(***************************************************************************)
Idle == [op |-> "idle", status |-> "ok", value |-> None]

\* the coroutines of the handlers that run interleaved (SpecAsync)
Tasks == {1, 2}

IdleTask == [op |-> "idle", pc |-> "idle"]

Init ==
  /\ conn = SeededDb
  /\ disk = SeededDb
  /\ ret = Idle
  /\ aborted = {}
  /\ now = 0
  /\ tasks = [t \in Tasks |-> IdleTask]
  /\ history = <<>>

Return(op, out) ==
  [ op     |-> op,
    status |-> IF out.raised THEN "raised" ELSE "ok",
    value  |-> out.value ]

(***************************************************************************)
(* Actions of the sequential specifications: one storage call, whole.      *)
(***************************************************************************)
get_or_create_player(discord_id, username) ==
  LET out == GetOrCreatePlayer(conn, disk, discord_id, username) IN
  /\ conn' = out.conn
  /\ disk' = out.disk
  /\ ret' = Return("get_or_create_player", out)
  /\ UNCHANGED <<aborted, now, tasks, history>>

get_or_create_deck(player_id, commander_name) ==
  LET out == GetOrCreateDeck(conn, disk, player_id, commander_name) IN
  /\ conn' = out.conn
  /\ disk' = out.disk
  /\ ret' = Return("get_or_create_deck", out)
  /\ UNCHANGED <<aborted, now, tasks, history>>

create_game(game_type, win_condition, placements, duration_minutes) ==
  LET out == CreateGame(conn, disk, game_type, win_condition, placements,
                        duration_minutes, now) IN
  /\ Len(conn.games) < MaxGames
  /\ conn' = out.conn
  /\ disk' = out.disk
  /\ ret' = Return("create_game", out)
  /\ aborted' = IF out.raised /\ out.game_id # 0
                  THEN aborted \cup {out.game_id}
                  ELSE aborted
  /\ UNCHANGED <<now, tasks, history>>

add_stereotype(name) ==
  LET out == AddStereotype(conn, disk, name) IN
  /\ conn' = out.conn
  /\ disk' = out.disk
  /\ ret' = Return("add_stereotype", out)
  /\ UNCHANGED <<aborted, now, tasks, history>>

assign_stereotypes(game_id, player_id, stereotype_ids) ==
  LET out == AssignStereotypes(conn, disk, game_id, player_id, stereotype_ids) IN
  /\ Len(conn.game_stereotypes) + Len(stereotype_ids) <= MaxAssign
  /\ conn' = out.conn
  /\ disk' = out.disk
  /\ ret' = Return("assign_stereotypes", out)
  /\ UNCHANGED <<aborted, now, tasks, history>>

on_submit(sub) ==
  LET out == OnSubmit(conn, disk, sub, now) IN
  /\ Len(out.conn.games) <= MaxLogged
  /\ conn' = out.conn
  /\ disk' = out.disk
  /\ ret' = [op |-> "on_submit", status |-> out.status, value |-> out.value]
  /\ aborted' = IF out.status = "raised" /\ out.game_id # 0
                  THEN aborted \cup {out.game_id}
                  ELSE aborted
  /\ UNCHANGED <<now, tasks, history>>

(***************************************************************************)
(* Spec: callers of the storage API, one call at a time.                   *)
(*                                                                         *)
(* Arguments of create_game: n tuples (player_id, deck_id, placement).     *)
(* The i-th tuple names player i with deck i, except that one position     *)
(* `twice' may name player 1 again; the placement values are 1..n          *)
(* ("exact"), 1,1,2,.. ("dup") or 1,3,4,.. ("gap").                        *)
(***************************************************************************)
Patterns == {"exact", "dup", "gap"}

PlacementValue(pattern, i) ==
  IF i = 1 THEN 1
  ELSE IF pattern = "dup" THEN i - 1
  ELSE IF pattern = "gap" THEN i + 1
  ELSE i

Placements(n, twice, pattern) ==
  [i \in 1..n |-> << IF i = twice THEN 1 ELSE i,
                     IF i = twice THEN 1 ELSE i,
                     PlacementValue(pattern, i) >>]

PlacementLists ==
  { Placements(n, twice, pattern) :
      n \in 1..4, twice \in {0, 2, 3, 4}, pattern \in Patterns }

Ramp == <<" ", "R", "a", "m", "p">>

Atraxa == <<"A", "t", "r", "a", "x", "a">>

Next ==
  \/ \E discord_id \in {"100"} : get_or_create_player(discord_id, "ann")
  \/ \E commander_name \in {Atraxa} : get_or_create_deck(1, commander_name)
  \/ \E game_type \in GameTypes, placements \in PlacementLists :
        create_game(game_type, "Combo", placements, None)
  \/ \E name \in {Ramp} : add_stereotype(name)
  \/ \E stereotype_ids \in {<<1>>} : assign_stereotypes(1, 1, stereotype_ids)

Spec == Init /\ [][Next]_vars

(***************************************************************************)
(* Reading the store.                                                      *)
(***************************************************************************)
\* ids of the game_placements rows of a game
PlacementsOf(db, game_id) ==
  {i \in DOMAIN db.game_placements : db.game_placements[i].game_id = game_id}

\* a game or placement row with this game id exists in db
GameVisible(db, game_id) ==
  game_id \in DOMAIN db.games \/ PlacementsOf(db, game_id) # {}

(***************************************************************************)
(* C1.  Atomic game creation: when a placement insert of a create_game     *)
(* call fails, neither the game row nor any placement row of that attempt  *)
(* is visible to a later read on the connection, nor made durable by a     *)
(* later commit.                                                           *)
(***************************************************************************)
C1_FailedAttemptInvisible ==
  \A game_id \in aborted :
     ~ GameVisible(conn, game_id) /\ ~ GameVisible(disk, game_id)

(***************************************************************************)
(* C4.  create_game rejects, and stores no row, every call whose number of *)
(* placements does not match the game type: exactly 2 for "1v1", 3 or 4    *)
(* for "multiplayer".                                                      *)
(***************************************************************************)
CountMatchesType(game_type, n) ==
  IF game_type = "1v1" THEN n = 2 ELSE n \in {3, 4}

C4_CountMismatchRejected ==
  [][ \A game_type \in GameTypes, placements \in PlacementLists :
        ( /\ ~ CountMatchesType(game_type, Len(placements))
          /\ create_game(game_type, "Combo", placements, None) )
        => ( /\ ret'.status = "raised"
             /\ conn' = conn
             /\ disk' = disk ) ]_vars

(***************************************************************************)
(* SpecRecorder: callers of create_game alone.                             *)
(***************************************************************************)
NextRecorder ==
  \E game_type \in GameTypes, placements \in PlacementLists :
     create_game(game_type, "Combo", placements, None)

SpecRecorder == Init /\ [][NextRecorder]_vars

(***************************************************************************)
(* C5.  create_game rejects, and stores no row, every call whose placement *)
(* values are not each of 1..N exactly once.                               *)
(***************************************************************************)
PlacementValues(placements) == {placements[i][3] : i \in DOMAIN placements}

ExactlyOnceEach(placements) ==
  /\ PlacementValues(placements) = 1..Len(placements)
  /\ \A i, j \in DOMAIN placements :
        placements[i][3] = placements[j][3] => i = j

C5_BadPlacementsRejected ==
  [][ \A game_type \in GameTypes, placements \in PlacementLists :
        ( /\ ~ ExactlyOnceEach(placements)
          /\ create_game(game_type, "Combo", placements, None) )
        => ( /\ ret'.status = "raised"
             /\ conn' = conn
             /\ disk' = disk ) ]_vars

(***************************************************************************)
(* C10.  A player's total points are the sum, over every placement row of  *)
(* the player, of 3/2/1/0 for multiplayer placements 1/2/3/4, of 3/0 for   *)
(* 1v1 placements 1/2, and of 0 for every other pair.                      *)
(***************************************************************************)
C10_points(game_type, placement) ==
  CASE game_type = "multiplayer" /\ placement = 1 -> 3
    [] game_type = "multiplayer" /\ placement = 2 -> 2
    [] game_type = "multiplayer" /\ placement = 3 -> 1
    [] game_type = "1v1" /\ placement = 1 -> 3
    [] OTHER -> 0

RECURSIVE C10_Sum(_, _)
C10_Sum(db, rows) ==
  IF rows = {} THEN 0
  ELSE LET i == CHOOSE x \in rows : TRUE
           gp == db.game_placements[i]
       IN  C10_points(db.games[gp.game_id].game_type, gp.placement)
             + C10_Sum(db, rows \ {i})

RowsOfPlayer(db, player_id) ==
  {i \in DOMAIN db.game_placements : db.game_placements[i].player_id = player_id}

PlayerIds == 1..4

C10_TotalPointsIsSum ==
  \A player_id \in PlayerIds :
     calculate_player_points(conn, player_id)
       = C10_Sum(conn, RowsOfPlayer(conn, player_id))

\* player 2 was 2nd of a multiplayer game and 1st of a 1v1 game: 2 + 3 = 5,
\* while the store also holds a (1v1, 3) row, a pair outside the table
C10_Witness ==
  /\ {<<conn.games[conn.game_placements[i].game_id].game_type,
        conn.game_placements[i].placement>> : i \in RowsOfPlayer(conn, 2)}
       = {<<"multiplayer", 2>>, <<"1v1", 1>>}
  /\ Cardinality(RowsOfPlayer(conn, 2)) = 2
  /\ calculate_player_points(conn, 2) = 5
  /\ \E i \in DOMAIN conn.game_placements :
        /\ conn.game_placements[i].placement = 3
        /\ conn.games[conn.game_placements[i].game_id].game_type = "1v1"

(***************************************************************************)
(* SpecLog: /log submissions, one at a time.                               *)
(*                                                                         *)
(* The players field lists n of the members in guild order from `first',   *)
(* by name or by mention; position `at' may be replaced by an alias of the *)
(* first listed player ("again") or by somebody unknown ("nobody").  The   *)
(* decks field has one deck per player, all the same commander or each     *)
(* their own, and `extra' more.                                            *)
(***************************************************************************)
Handle == <<"ann", "bob", "cat", "dan">>

Alias == <<"Annie", "BOB", "cat", "dan">>

MemberAt(first, i) == ((first + i - 2) % 4) + 1

PlayerInput(kind, first, i, at, how) ==
  LET m == MemberAt(first, i) IN
  IF kind = "id"
    THEN IF i # at THEN <<"id", guild_members[m].id>>
         ELSE IF how = "again" THEN <<"id", guild_members[MemberAt(first, 1)].id>>
         ELSE <<"id", "999">>
    ELSE IF i # at THEN <<"name", Handle[m]>>
         ELSE IF how = "again" THEN <<"name", Alias[MemberAt(first, 1)]>>
         ELSE <<"name", "zed">>

Urza == <<"U", "r", "z", "a">>

Commanders == <<Atraxa, <<" ">> \o Urza, Urza \o <<" ", " ">>, <<"\t">> \o Atraxa>>

DeckInput(scheme, i) ==
  IF scheme = "same" THEN <<" ">> \o Atraxa \o <<" ">>
  ELSE IF scheme = "next" THEN Commanders[(i % 4) + 1]
  ELSE Commanders[((i - 1) % 4) + 1]

Submission(game_type, kind, first, n, at, how, scheme, extra, duration, guild) ==
  [ game_type     |-> game_type,
    players       |-> [i \in 1..n |-> PlayerInput(kind, first, i, at, how)],
    decks         |-> [i \in 1..(n + extra) |-> DeckInput(scheme, i)],
    win_condition |-> "Combo",
    duration      |-> duration,
    guild         |-> guild ]

Durations == {<<>>, <<"6", "0">>, <<"0">>, <<"-", "5">>, <<"s", "o", "o", "n">>}

\* every players field by name, with its own decks, no duration, in a guild
PlainSubmissions ==
  { Submission(game_type, "name", first, n, at, how, "own", 0, <<>>, TRUE) :
      game_type \in GameTypes, first \in {1, 2}, n \in 1..5,
      at \in 0..5, how \in {"again", "nobody"} }

\* the other ways to fill the form, for the players fields without alias
\* or unknown
VariedSubmissions ==
  { Submission(game_type, v[1], 1, n, 0, "again", v[2], v[3], v[4], v[5]) :
      game_type \in GameTypes, n \in 2..4,
      v \in ( {<<"id", "own", 0, <<>>, TRUE>>,
               <<"name", "same", 0, <<>>, TRUE>>,
               <<"name", "own", 1, <<>>, TRUE>>,
               <<"name", "own", 0, <<>>, FALSE>>}
              \cup {<<"name", "own", 0, duration, TRUE>> :
                      duration \in Durations} ) }
    \cup
  { Submission(game_type, "id", 1, n, at, how, "own", 0, <<>>, TRUE) :
      game_type \in GameTypes, n \in 2..3, at \in {2},
      how \in {"again", "nobody"} }

Submissions == PlainSubmissions \cup VariedSubmissions

NextLog == \E sub \in Submissions : on_submit(sub)

SpecLog == Init /\ [][NextLog]_vars

(***************************************************************************)
(* C3.  Every visible game has placements that are exactly 1..N, each      *)
(* once, with N = 2 for a "1v1" game and 3 or 4 for a "multiplayer" game,  *)
(* and no player twice.                                                    *)
(***************************************************************************)
GameComplete(db, game_id) ==
  LET rows == PlacementsOf(db, game_id)
      n    == Cardinality(rows)
  IN  /\ CountMatchesType(db.games[game_id].game_type, n)
      /\ {db.game_placements[i].placement : i \in rows} = 1..n
      /\ \A i, j \in rows :
            db.game_placements[i].player_id = db.game_placements[j].player_id
              => i = j

C3_VisibleGamesComplete ==
  \A game_id \in DOMAIN conn.games : GameComplete(conn, game_id)

(***************************************************************************)
(* C6.  A /log submission that violates a precondition (player count       *)
(* outside the range of the game type, number of decks other than the      *)
(* number of players, a duration that is not a positive integer, a player  *)
(* that cannot be resolved) is rejected and leaves every table unchanged,   *)
(* whatever the store holds when it arrives.                               *)
(***************************************************************************)
C6_PositiveInteger(text) ==
  /\ text # <<>>
  /\ \A i \in DOMAIN text : text[i] \in DOMAIN Digits
  /\ \E i \in DOMAIN text : text[i] # "0"

C6_Unknown == {"zed", "999"}

C6_Violates(sub) ==
  \/ ~ CountMatchesType(sub.game_type, Len(sub.players))
  \/ Len(sub.decks) # Len(sub.players)
  \/ sub.duration # <<>> /\ ~ C6_PositiveInteger(sub.duration)
  \/ \E i \in DOMAIN sub.players :
        \/ sub.players[i][2] \in C6_Unknown
        \/ sub.players[i][1] = "name" /\ ~ sub.guild

C6_RejectedTouchesNothing ==
  \A sub \in Submissions :
     C6_Violates(sub) =>
       LET out == OnSubmit(conn, disk, sub, now) IN
       /\ out.status = "rejected"
       /\ out.conn = conn
       /\ out.disk = disk

\* a game is stored and the last submission named an unknown player
C6_Witness ==
  /\ ret.op = "on_submit"
  /\ ret.status = "rejected"
  /\ ret.value = "Player Not Found"
  /\ conn.games # <<>>

(***************************************************************************)
(* SpecIdentity: callers of get_or_create_player and get_or_create_deck,   *)
(* one call at a time; `history' keeps each call's arguments and the       *)
(* record it returned.                                                     *)
(***************************************************************************)
DiscordIds == {"100", "200"}

Usernames == {"ann", "Annie"}

CommanderNames == {Atraxa, <<" ">> \o Atraxa \o <<" ">>, Urza \o <<"\t">>}

player_call(discord_id, username) ==
  LET out == GetOrCreatePlayer(conn, disk, discord_id, username) IN
  /\ Len(history) < MaxCalls
  /\ conn' = out.conn
  /\ disk' = out.disk
  /\ ret' = Return("get_or_create_player", out)
  /\ history' = Append(history,
       [op |-> "player", discord_id |-> discord_id, username |-> username,
        returned |-> out.value])
  /\ UNCHANGED <<aborted, now, tasks>>

deck_call(player_id, commander_name) ==
  LET out == GetOrCreateDeck(conn, disk, player_id, commander_name) IN
  /\ Len(history) < MaxCalls
  /\ conn' = out.conn
  /\ disk' = out.disk
  /\ ret' = Return("get_or_create_deck", out)
  /\ history' = Append(history,
       [op |-> "deck", player_id |-> player_id,
        commander_name |-> commander_name, returned |-> out.value])
  /\ UNCHANGED <<aborted, now, tasks>>

NextIdentity ==
  \/ \E discord_id \in DiscordIds, username \in Usernames :
        player_call(discord_id, username)
  \/ \E player_id \in {1, 2}, commander_name \in CommanderNames :
        deck_call(player_id, commander_name)

SpecIdentity == Init /\ [][NextIdentity]_vars

PlayerCalls == {i \in DOMAIN history : history[i].op = "player"}

DeckCalls == {i \in DOMAIN history : history[i].op = "deck"}

(***************************************************************************)
(* C7.  get_or_create_player is idempotent on the external id: all calls   *)
(* with one external id return one player id, also when the display name   *)
(* differs, and after a call the stored display name and the returned      *)
(* record's name are the name of the most recent call for that id.         *)
(***************************************************************************)
LastCallFor(discord_id) ==
  LET calls == {i \in PlayerCalls : history[i].discord_id = discord_id}
  IN  CHOOSE i \in calls : \A j \in calls : j <= i

C7_IdempotentPlayer ==
  /\ \A i, j \in PlayerCalls :
        history[i].discord_id = history[j].discord_id
          => history[i].returned.id = history[j].returned.id
  /\ \A i \in PlayerCalls :
        /\ history[i].returned.username = history[i].username
        /\ history[i].returned.discord_id = history[i].discord_id
        /\ i = LastCallFor(history[i].discord_id)
             => /\ conn.players[history[i].returned.id].username
                     = history[i].username
                /\ disk.players[history[i].returned.id].username
                     = history[i].username

\* the same external id was seen under two display names
C7_Witness ==
  \E i, j \in PlayerCalls :
     /\ i < j
     /\ history[i].discord_id = history[j].discord_id
     /\ history[i].username # history[j].username
     /\ history[j].returned.id = history[i].returned.id
     /\ conn.players[history[j].returned.id].username = history[j].username

(***************************************************************************)
(* C9.  get_or_create_deck is idempotent on (player, trimmed commander     *)
(* name): calls for one player whose commander names are equal without     *)
(* their surrounding whitespace return one deck id, no two deck rows share *)
(* (owner, commander name), and one commander name for two players gives   *)
(* two decks.                                                              *)
(***************************************************************************)
\* text without its leading and trailing whitespace
C9_Trimmed(text) ==
  LET solid == {i \in DOMAIN text : text[i] \notin Whitespace}
  IN  IF solid = {} THEN <<>>
      ELSE LET lo == CHOOSE i \in solid : \A j \in solid : i <= j
               hi == CHOOSE i \in solid : \A j \in solid : j <= i
           IN  [k \in 1..(hi - lo + 1) |-> text[lo + k - 1]]

C9_IdempotentDeck ==
  /\ \A i, j \in DeckCalls :
        ( /\ history[i].player_id = history[j].player_id
          /\ C9_Trimmed(history[i].commander_name)
               = C9_Trimmed(history[j].commander_name) )
          <=> history[i].returned.id = history[j].returned.id
  /\ \A a, b \in DOMAIN conn.decks :
        ( /\ conn.decks[a].player_id = conn.decks[b].player_id
          /\ conn.decks[a].commander_name = conn.decks[b].commander_name )
          => a = b
  /\ \A i \in DeckCalls :
        /\ conn.decks[history[i].returned.id].player_id = history[i].player_id
        /\ conn.decks[history[i].returned.id].commander_name
             = C9_Trimmed(history[i].commander_name)

\* "Atraxa" and " Atraxa " gave one deck for a player, and "Atraxa" gave
\* another deck for the other player
C9_Witness ==
  \E i, j, k \in DeckCalls :
     /\ history[i].player_id = history[j].player_id
     /\ history[i].commander_name = Atraxa
     /\ history[j].commander_name = <<" ">> \o Atraxa \o <<" ">>
     /\ history[i].returned.id = history[j].returned.id
     /\ history[k].player_id # history[i].player_id
     /\ C9_Trimmed(history[k].commander_name) = Atraxa
     /\ history[k].returned.id # history[i].returned.id

(***************************************************************************)
(* SpecAsync: handlers as asyncio coroutines on the one connection.  Each  *)
(* awaited statement (execute, commit) is one step; between two steps of a *)
(* coroutine any step of another may run.  A task is the coroutine of one  *)
(* interaction: on_submit (a /log form) or get_recent_games.               *)
(***************************************************************************)
Stopped == {"idle", "done", "raised", "rejected"}

Running(op) == {t \in Tasks : tasks[t].op = op /\ tasks[t].pc \notin Stopped}

SetTask(t, k) == tasks' = [tasks EXCEPT ![t] = k]

\* the form arrives: validation and name resolution touch no storage
submit(t, sub) ==
  /\ tasks[t].pc \in Stopped
  /\ Len(conn.games) + Cardinality(Running("on_submit")) < MaxRunning
  /\ IF Validate(sub) # None
       THEN SetTask(t, [op |-> "on_submit", pc |-> "rejected",
                        value |-> Validate(sub)])
       ELSE SetTask(t, [op |-> "on_submit", pc |-> "select_player",
              game_type |-> sub.game_type,
              win_condition |-> sub.win_condition,
              duration |-> ParseDuration(sub.duration).duration,
              users |-> [i \in DOMAIN sub.players |->
                           Resolve(sub.players[i], sub.guild)],
              deck_names |-> DeckNames(sub.decks),
              i |-> 1, player_id |-> 0, placements |-> <<>>,
              game_id |-> 0, j |-> 0, raised_in |-> None])
  /\ UNCHANGED <<conn, disk, ret, aborted, now, history>>

At(t, pc) == tasks[t].op = "on_submit" /\ tasks[t].pc = pc

\* get_or_create_player: SELECT * FROM players WHERE discord_id = ?
select_player(t) ==
  /\ At(t, "select_player")
  /\ LET k    == tasks[t]
         user == k.users[k.i]
         row  == SelectPlayer(conn, user.discord_id)
     IN  SetTask(t,
           IF row = 0 THEN [k EXCEPT !.pc = "insert_player"]
           ELSE IF conn.players[row].username # user.username
             THEN [k EXCEPT !.pc = "update_player", !.player_id = row]
             ELSE [k EXCEPT !.pc = "select_deck", !.player_id = row])
  /\ UNCHANGED <<conn, disk, ret, aborted, now, history>>

update_player(t) ==
  /\ At(t, "update_player")
  /\ LET k == tasks[t] IN
     /\ conn' = UpdateUsername(conn, k.player_id, k.users[k.i].username)
     /\ SetTask(t, [k EXCEPT !.pc = "commit_player"])
  /\ UNCHANGED <<disk, ret, aborted, now, history>>

insert_player(t) ==
  /\ At(t, "insert_player")
  /\ LET k   == tasks[t]
         ins == InsertPlayer(conn, k.users[k.i].discord_id,
                             k.users[k.i].username)
     IN  /\ conn' = ins.db
         /\ SetTask(t, IF ins.ok
                         THEN [k EXCEPT !.pc = "commit_player",
                                        !.player_id = ins.lastrowid]
                         ELSE [k EXCEPT !.pc = "raised",
                                        !.raised_in = "get_or_create_player"])
  /\ UNCHANGED <<disk, ret, aborted, now, history>>

commit_player(t) ==
  /\ At(t, "commit_player")
  /\ disk' = conn
  /\ SetTask(t, [tasks[t] EXCEPT !.pc = "select_deck"])
  /\ UNCHANGED <<conn, ret, aborted, now, history>>

\* placements.append((player.id, deck.id, i + 1)), then the next player
\* or create_game
Registered(k, deck_id) ==
  LET placements == Append(k.placements, <<k.player_id, deck_id, k.i>>) IN
  IF k.i < Len(k.users)
    THEN [k EXCEPT !.placements = placements, !.i = k.i + 1,
                   !.pc = "select_player"]
    ELSE [k EXCEPT !.placements = placements, !.pc = "insert_game"]

\* get_or_create_deck: SELECT * FROM decks WHERE player_id = ? AND ...
select_deck(t) ==
  /\ At(t, "select_deck")
  /\ LET k   == tasks[t]
         row == SelectDeck(conn, k.player_id, strip(k.deck_names[k.i]))
     IN  SetTask(t, IF row = 0 THEN [k EXCEPT !.pc = "insert_deck"]
                    ELSE Registered(k, row))
  /\ UNCHANGED <<conn, disk, ret, aborted, now, history>>

insert_deck(t) ==
  /\ At(t, "insert_deck")
  /\ LET k   == tasks[t]
         ins == InsertDeck(conn, k.player_id, strip(k.deck_names[k.i]))
     IN  /\ conn' = ins.db
         /\ SetTask(t, IF ins.ok
                         THEN [k EXCEPT !.pc = "commit_deck",
                                        !.j = ins.lastrowid]
                         ELSE [k EXCEPT !.pc = "raised",
                                        !.raised_in = "get_or_create_deck"])
  /\ UNCHANGED <<disk, ret, aborted, now, history>>

commit_deck(t) ==
  /\ At(t, "commit_deck")
  /\ disk' = conn
  /\ SetTask(t, [Registered(tasks[t], tasks[t].j) EXCEPT !.j = 0])
  /\ UNCHANGED <<conn, ret, aborted, now, history>>

\* create_game: INSERT INTO games
insert_game(t) ==
  /\ At(t, "insert_game")
  /\ LET k   == tasks[t]
         ins == InsertGame(conn, k.game_type, k.win_condition, k.duration, now)
     IN  /\ conn' = ins.db
         /\ SetTask(t, IF ins.ok
                         THEN [k EXCEPT !.pc = "insert_placement",
                                        !.game_id = ins.lastrowid, !.j = 1]
                         ELSE [k EXCEPT !.pc = "raised",
                                        !.raised_in = "create_game"])
  /\ UNCHANGED <<disk, ret, aborted, now, history>>

\* create_game: the j-th INSERT INTO game_placements
insert_placement(t) ==
  /\ At(t, "insert_placement")
  /\ LET k   == tasks[t]
         p   == k.placements[k.j]
         ins == InsertPlacement(conn, k.game_id, p[1], p[2], p[3])
     IN  /\ conn' = ins.db
         /\ SetTask(t, IF ~ ins.ok
                         THEN [k EXCEPT !.pc = "raised",
                                        !.raised_in = "create_game"]
                       ELSE IF k.j < Len(k.placements)
                         THEN [k EXCEPT !.j = k.j + 1]
                         ELSE [k EXCEPT !.pc = "commit_game"])
         /\ aborted' = IF ins.ok THEN aborted ELSE aborted \cup {k.game_id}
  /\ UNCHANGED <<disk, ret, now, history>>

commit_game(t) ==
  /\ At(t, "commit_game")
  /\ disk' = conn
  /\ SetTask(t, [tasks[t] EXCEPT !.pc = "done"])
  /\ UNCHANGED <<conn, ret, aborted, now, history>>

\* ids of a set of rows as a sequence, by ascending key and then rowid
RECURSIVE Sorted(_, _)
Sorted(ids, key) ==
  IF ids = {} THEN <<>>
  ELSE LET first == CHOOSE i \in ids : \A j \in ids :
                       key[i] < key[j] \/ (key[i] = key[j] /\ i <= j)
       IN  <<first>> \o Sorted(ids \ {first}, key)

Take(seq, n) == SubSeq(seq, 1, IF Len(seq) < n THEN Len(seq) ELSE n)

\* SELECT g.id, ... FROM games g ORDER BY g.played_at DESC LIMIT ?
RecentGameIds(db, limit) ==
  Take(Sorted(DOMAIN db.games,
              [g \in DOMAIN db.games |-> 0 - db.games[g].played_at]), limit)

\* SELECT p.username, d.commander_name, gp.placement FROM game_placements gp
\* JOIN players p ... JOIN decks d ... WHERE gp.game_id = ? ORDER BY gp.placement
GamePlayers(db, game_id) ==
  LET rows == {i \in PlacementsOf(db, game_id) :
                 /\ db.game_placements[i].player_id \in DOMAIN db.players
                 /\ db.game_placements[i].deck_id \in DOMAIN db.decks}
      order == Sorted(rows, [i \in rows |-> db.game_placements[i].placement])
  IN  [n \in DOMAIN order |->
         [ username  |-> db.players[db.game_placements[order[n]].player_id].username,
           commander |-> db.decks[db.game_placements[order[n]].deck_id].commander_name,
           placement |-> db.game_placements[order[n]].placement ]]

\* get_recent_games: the games query
select_games(t, limit) ==
  /\ tasks[t].pc \in Stopped
  /\ conn.games # <<>>
  /\ LET rows == RecentGameIds(conn, limit) IN
     SetTask(t, [op |-> "get_recent_games",
                 pc |-> IF rows = <<>> THEN "done" ELSE "select_placements",
                 rows |-> rows, games |-> <<>>])
  /\ UNCHANGED <<conn, disk, ret, aborted, now, history>>

\* get_recent_games: the placements query of the next game
select_placements(t) ==
  /\ tasks[t].op = "get_recent_games"
  /\ tasks[t].pc = "select_placements"
  /\ LET k    == tasks[t]
         game == [id |-> Head(k.rows), players |-> GamePlayers(conn, Head(k.rows))]
     IN  SetTask(t, [k EXCEPT !.rows = Tail(k.rows),
                              !.games = Append(k.games, game),
                              !.pc = IF Tail(k.rows) = <<>> THEN "done"
                                     ELSE "select_placements"])
  /\ UNCHANGED <<conn, disk, ret, aborted, now, history>>

\* two-player forms: ann and bob by mention, ann and bob by name, bob and
\* cat by name, and ann twice (by name and by display name)
AsyncSubmissions ==
  { Submission("1v1", "id", 1, 2, 0, "again", "own", 0, <<>>, TRUE),
    Submission("1v1", "name", 1, 2, 0, "again", "own", 0, <<>>, TRUE),
    Submission("1v1", "name", 2, 2, 0, "again", "own", 0, <<>>, TRUE),
    Submission("1v1", "name", 1, 2, 2, "again", "own", 0, <<>>, TRUE) }

NextAsync ==
  \E t \in Tasks :
     \/ \E sub \in AsyncSubmissions : submit(t, sub)
     \/ select_player(t)
     \/ update_player(t)
     \/ insert_player(t)
     \/ commit_player(t)
     \/ select_deck(t)
     \/ insert_deck(t)
     \/ commit_deck(t)
     \/ insert_game(t)
     \/ insert_placement(t)
     \/ commit_game(t)
     \/ \E limit \in {5} : select_games(t, limit)
     \/ select_placements(t)

SpecAsync == Init /\ [][NextAsync]_vars

\* the create_game calls in one of the given positions whose placements
\* list is sound (no player twice), so that every INSERT of theirs succeeds
Creating(states) ==
  {t \in Tasks :
     /\ tasks[t].op = "on_submit" /\ tasks[t].pc \in states
     /\ \A a, b \in DOMAIN tasks[t].placements :
          tasks[t].placements[a][1] = tasks[t].placements[b][1] => a = b}

Partial(count, t) == 0 < count /\ count < Len(tasks[t].placements)

\* C2: while a create_game interleaves with other operations, no reader
\* is handed its game with some but not all of the placements, and no
\* commit makes the game durable with some but not all of them.
C2_NoPartialGame ==
  /\ \A r \in Tasks : tasks[r].op = "get_recent_games" =>
       \A n \in DOMAIN tasks[r].games :
         \A t \in Creating({"insert_placement", "commit_game", "done"}) :
           tasks[t].game_id = tasks[r].games[n].id =>
             ~ Partial(Len(tasks[r].games[n].players), t)
  /\ \A t \in Creating({"insert_placement", "commit_game"}) :
       ~ Partial(Cardinality(PlacementsOf(disk, tasks[t].game_id)), t)

\* C8: on the connection and on disk, no two rows of players carry the
\* same discord_id, whatever the interleaving of get_or_create_player.
C8_OnePlayerPerDiscordId ==
  \A db \in {conn, disk} :
    \A i, j \in DOMAIN db.players :
      db.players[i].discord_id = db.players[j].discord_id => i = j

\* two calls for one new discord_id both found no row; one inserted it and
\* the other's INSERT was refused
C8_Witness ==
  \E a, b \in Tasks :
    /\ a # b
    /\ tasks[a].op = "on_submit" /\ tasks[a].pc = "raised"
    /\ tasks[a].raised_in = "get_or_create_player"
    /\ tasks[b].op = "on_submit" /\ tasks[b].pc \notin {"rejected", "raised"}
    /\ tasks[b].player_id # 0
    /\ tasks[b].player_id \in DOMAIN conn.players
    /\ conn.players[tasks[b].player_id].discord_id
         = tasks[a].users[tasks[a].i].discord_id

(***************************************************************************)
(* The statistics queries of Database.  A float the code computes as a     *)
(* quotient is kept exact, as a fraction in lowest terms.  Where a query   *)
(* leaves rows with equal ORDER BY keys in an order SQL does not fix, the  *)
(* parameter `tie' picks it: by ascending or by descending rowid.          *)
(***************************************************************************)
RECURSIVE Gcd(_, _)
Gcd(a, b) == IF b = 0 THEN a ELSE Gcd(b, a % b)

\* n / d, for n >= 0 and d > 0
Frac(n, d) == [num |-> n \div Gcd(n, d), den |-> d \div Gcd(n, d)]

FracLess(a, b) == a.num * b.den < b.num * a.den

TieOrders == {"asc", "desc"}

\* None where the code holds an Optional[str]
NoText == <<None>>

\* None where the code holds an Optional[PlayerStats] or
\* Optional[HeadToHeadStats]
NoStats == [found |-> FALSE]

\* the ids as a sequence by DESCENDING key; equal keys by rowid as `tie' says
RECURSIVE OrderByDesc(_, _, _)
OrderByDesc(ids, key, tie) ==
  IF ids = {} THEN <<>>
  ELSE LET first == CHOOSE i \in ids : \A j \in ids :
                      \/ FracLess(key[j], key[i])
                      \/ /\ ~ FracLess(key[i], key[j])
                         /\ IF tie = "asc" THEN i <= j ELSE i >= j
       IN  <<first>> \o OrderByDesc(ids \ {first}, key, tie)

\* the placement rows of a player
RowsOf(db, player_id) ==
  {i \in DOMAIN db.game_placements : db.game_placements[i].player_id = player_id}

\* SUM(CASE WHEN gp.placement = 1 THEN 1 ELSE 0 END) over the rows
Wins(db, rows) ==
  Cardinality({i \in rows : db.game_placements[i].placement = 1})

\* (wins / total_games * 100) if total_games > 0 else 0
WinRate(wins, total_games) ==
  IF total_games > 0 THEN Frac(wins * 100, total_games) ELSE Frac(0, 1)

PlayerStats(db, player_id, favorite_deck, best_deck, current_streak) ==
  LET rows == RowsOf(db, player_id) IN
  [ player_id      |-> player_id,
    username       |-> db.players[player_id].username,
    total_games    |-> Cardinality(rows),
    wins           |-> Wins(db, rows),
    points         |-> calculate_player_points(db, player_id),
    win_rate       |-> WinRate(Wins(db, rows), Cardinality(rows)),
    favorite_deck  |-> favorite_deck,
    best_deck      |-> best_deck,
    current_streak |-> current_streak ]

\* variant: the entries are returned as the query gave them
SortByPoints_Unsorted(stats) == stats

\* list.sort(key=lambda x: x.points, reverse=True): stable, equal points
\* keep the order they had
RECURSIVE SortByPoints(_)
SortByPoints(stats) ==
  IF stats = <<>> THEN <<>>
  ELSE LET best == CHOOSE i \in DOMAIN stats :
                     /\ \A j \in DOMAIN stats : stats[j].points <= stats[i].points
                     /\ \A j \in 1..(i - 1) : stats[j].points < stats[i].points
       IN  <<stats[best]>> \o
           SortByPoints([j \in 1..(Len(stats) - 1) |->
                           IF j < best THEN stats[j] ELSE stats[j + 1]])

\* variant: the query without HAVING total_games > 0
LeaderboardRows_All(db) ==
  Sorted(DOMAIN db.players, [p \in DOMAIN db.players |-> 0])

\* FROM players p LEFT JOIN game_placements gp ... GROUP BY p.id
\* HAVING total_games > 0: one row per player with a placement, by p.id
LeaderboardRows(db) ==
  LET ids == {p \in DOMAIN db.players : RowsOf(db, p) # {}} IN
  Sorted(ids, [p \in ids |-> 0])

GetLeaderboard(db) ==
  LET rows == LeaderboardRows(db) IN
  SortByPoints([n \in DOMAIN rows |-> PlayerStats(db, rows[n], NoText, NoText, 0)])

\* the decks of a player's placement rows: gp JOIN decks d ... GROUP BY d.id
DecksPlayed(db, player_id) ==
  {db.game_placements[i].deck_id : i \in RowsOf(db, player_id)} \cap DOMAIN db.decks

DeckRows(db, player_id, deck_id) ==
  {i \in RowsOf(db, player_id) : db.game_placements[i].deck_id = deck_id}

\* ORDER BY play_count DESC LIMIT 1
FavoriteDeck(db, player_id, tie) ==
  LET decks == DecksPlayed(db, player_id)
      order == OrderByDesc(decks,
                 [d \in decks |-> Frac(Cardinality(DeckRows(db, player_id, d)), 1)],
                 tie)
  IN  IF order = <<>> THEN NoText ELSE db.decks[order[1]].commander_name

\* variant: the query without HAVING games >= 3
BestDeck_NoMinimum(db, player_id, tie) ==
  LET decks == DecksPlayed(db, player_id)
      order == OrderByDesc(decks,
                 [d \in decks |-> Frac(Wins(db, DeckRows(db, player_id, d)),
                                       Cardinality(DeckRows(db, player_id, d)))],
                 tie)
  IN  IF order = <<>> THEN NoText ELSE db.decks[order[1]].commander_name

\* HAVING games >= 3 ORDER BY (CAST(wins AS FLOAT) / games) DESC LIMIT 1
BestDeck(db, player_id, tie) ==
  LET decks == {d \in DecksPlayed(db, player_id) :
                  Cardinality(DeckRows(db, player_id, d)) >= 3}
      order == OrderByDesc(decks,
                 [d \in decks |-> Frac(Wins(db, DeckRows(db, player_id, d)),
                                       Cardinality(DeckRows(db, player_id, d)))],
                 tie)
  IN  IF order = <<>> THEN NoText ELSE db.decks[order[1]].commander_name

\* variant: the loop without its break, every win counts
WinPrefix_NoBreak(db, order, n) ==
  Cardinality({k \in DOMAIN order : db.game_placements[order[k]].placement = 1})

\* for row in cursor: if row["placement"] == 1: streak += 1 else: break
RECURSIVE WinPrefix(_, _, _)
WinPrefix(db, order, n) ==
  IF n > Len(order) \/ db.game_placements[order[n]].placement # 1
    THEN n - 1
    ELSE WinPrefix(db, order, n + 1)

\* gp JOIN games g ... WHERE gp.player_id = ? ORDER BY g.played_at DESC
CurrentStreak(db, player_id, tie) ==
  LET rows  == {i \in RowsOf(db, player_id) :
                  db.game_placements[i].game_id \in DOMAIN db.games}
      order == OrderByDesc(rows,
                 [i \in rows |->
                    Frac(db.games[db.game_placements[i].game_id].played_at, 1)],
                 tie)
  IN  WinPrefix(db, order, 1)

GetPlayerStats(db, discord_id, tie) ==
  LET player == SelectPlayer(db, discord_id) IN
  IF player = 0 THEN NoStats
  ELSE PlayerStats(db, player, FavoriteDeck(db, player, tie),
                   BestDeck(db, player, tie), CurrentStreak(db, player, tie))

\* variant: the games of either player
SharedGames_Either(db, player1, player2) ==
  {g \in DOMAIN db.games :
     \E i \in RowsOf(db, player1) \cup RowsOf(db, player2) :
        db.game_placements[i].game_id = g}

\* SELECT g.id, g.game_type FROM games g WHERE g.id IN (...) AND g.id IN (...)
SharedGames(db, player1, player2) ==
  {g \in DOMAIN db.games :
     /\ \E i \in RowsOf(db, player1) : db.game_placements[i].game_id = g
     /\ \E i \in RowsOf(db, player2) : db.game_placements[i].game_id = g}

\* SELECT player_id FROM game_placements WHERE game_id = ? AND placement = 1;
\* fetchone(): the player of the first such row, 0 if there is none
Winner(db, game_id) ==
  LET hit == {i \in PlacementsOf(db, game_id) :
                db.game_placements[i].placement = 1}
  IN  IF hit = {} THEN 0 ELSE db.game_placements[Min(hit)].player_id

\* variant: the runner-up counts as a winner too
WonBy_TopTwo(db, games, player_id) ==
  Cardinality({g \in games :
     \E i \in PlacementsOf(db, g) :
        /\ db.game_placements[i].player_id = player_id
        /\ db.game_placements[i].placement <= 2})

WonBy(db, games, player_id) ==
  Cardinality({g \in games : Winner(db, g) = player_id})

\* variant: every game player 1 did not win counts for player 2
GetHeadToHead_Else(db, discord_id1, discord_id2) ==
  LET player1 == SelectPlayer(db, discord_id1)
      player2 == SelectPlayer(db, discord_id2)
      shared  == SharedGames(db, player1, player2)
      duels   == {g \in shared : db.games[g].game_type = "1v1"}
      second(games) == Cardinality({g \in games : Winner(db, g) # player1})
  IN  IF player1 = 0 \/ player2 = 0
        THEN NoStats
        ELSE [ player1_name     |-> db.players[player1].username,
               player2_name     |-> db.players[player2].username,
               player1_wins     |-> WonBy(db, shared, player1),
               player2_wins     |-> second(shared),
               games_together   |-> Cardinality(shared),
               one_v_one_record |-> <<WonBy(db, duels, player1), second(duels)>> ]

\* winner_id == player1.id counts for player 1, elif winner_id == player2.id
\* for player 2
GetHeadToHead(db, discord_id1, discord_id2) ==
  LET player1 == SelectPlayer(db, discord_id1)
      player2 == SelectPlayer(db, discord_id2)
      shared  == SharedGames(db, player1, player2)
      duels   == {g \in shared : db.games[g].game_type = "1v1"}
      second(games) == Cardinality({g \in games : /\ Winner(db, g) # player1
                                                  /\ Winner(db, g) = player2})
  IN  IF player1 = 0 \/ player2 = 0
        THEN NoStats
        ELSE [ player1_name     |-> db.players[player1].username,
               player2_name     |-> db.players[player2].username,
               player1_wins     |-> WonBy(db, shared, player1),
               player2_wins     |-> second(shared),
               games_together   |-> Cardinality(shared),
               one_v_one_record |-> <<WonBy(db, duels, player1), second(duels)>> ]

\* variant: the command without the comparison of the two members
SameMember_Never(member1, member2) == FALSE

\* if player1.id == player2.id
SameMember(member1, member2) == member1 = member2

\* Stats.head_to_head: the /headtohead command on two guild members
HeadToHead(db, member1, member2) ==
  IF SameMember(member1, member2)
    THEN [status |-> "rejected", title |-> "Invalid Comparison",
          value |-> NoStats]
    ELSE LET h2h_stats == GetHeadToHead(db, member1, member2) IN
         IF h2h_stats = NoStats
           THEN [status |-> "none", title |-> "No Data", value |-> NoStats]
           ELSE [status |-> "ok", title |-> "Head to Head",
                 value |-> h2h_stats]

\* FROM decks d JOIN game_placements gp ON d.id = gp.deck_id
\* JOIN players p ON d.player_id = p.id: the placement rows of a commander
CommanderRows(db, commander_name) ==
  {i \in DOMAIN db.game_placements :
     LET d == db.game_placements[i].deck_id IN
     /\ d \in DOMAIN db.decks
     /\ db.decks[d].commander_name = commander_name
     /\ db.decks[d].player_id \in DOMAIN db.players}

\* GROUP BY d.commander_name: each group by the first deck of that name
CommanderGroups(db) ==
  {d \in DOMAIN db.decks :
     /\ CommanderRows(db, db.decks[d].commander_name) # {}
     /\ \A e \in 1..(d - 1) :
          db.decks[e].commander_name # db.decks[d].commander_name}

DeckStats(db, deck_id) ==
  LET rows == CommanderRows(db, db.decks[deck_id].commander_name) IN
  [ commander_name |-> db.decks[deck_id].commander_name,
    total_games    |-> Cardinality(rows),
    wins           |-> Wins(db, rows),
    win_rate       |-> WinRate(Wins(db, rows), Cardinality(rows)),
    players        |-> {db.players[db.decks[db.game_placements[i].deck_id].player_id].username :
                          i \in rows} ]

TopDecksLimit == 10

\* get_deck_stats(None): HAVING games >= 3
\* ORDER BY (CAST(wins AS FLOAT) / games) DESC LIMIT 10
GetTopDecks(db, tie) ==
  LET groups == {d \in CommanderGroups(db) : DeckStats(db, d).total_games >= 3}
      order  == OrderByDesc(groups,
                  [d \in groups |-> Frac(DeckStats(db, d).wins,
                                         DeckStats(db, d).total_games)], tie)
      top    == Take(order, TopDecksLimit)
  IN  [n \in DOMAIN top |-> DeckStats(db, top[n])]

(***************************************************************************)
(* SpecStats: /log forms one after the other and the statistics commands   *)
(* in between.                                                             *)
(***************************************************************************)
\* GameLogModal.on_submit once more, `dt' seconds of CURRENT_TIMESTAMP after
\* the previous statement, while fewer than max_games games are stored
log_game(sub, dt, max_games) ==
  LET out == OnSubmit(conn, disk, sub, now + dt) IN
  /\ Len(conn.games) < max_games
  /\ now' = now + dt
  /\ conn' = out.conn
  /\ disk' = out.disk
  /\ ret' = [op |-> "on_submit", status |-> out.status, value |-> out.value]
  /\ aborted' = IF out.status = "raised" /\ out.game_id # 0
                  THEN aborted \cup {out.game_id}
                  ELSE aborted
  /\ UNCHANGED <<tasks, history>>

get_leaderboard ==
  /\ ret' = [op |-> "get_leaderboard", status |-> "ok",
             stats |-> GetLeaderboard(conn)]
  /\ UNCHANGED <<conn, disk, aborted, now, tasks, history>>

get_player_stats(discord_id, tie) ==
  /\ LET stats == GetPlayerStats(conn, discord_id, tie) IN
     ret' = [op |-> "get_player_stats", discord_id |-> discord_id,
             status |-> IF stats = NoStats THEN "none" ELSE "ok",
             value |-> stats]
  /\ UNCHANGED <<conn, disk, aborted, now, tasks, history>>

head_to_head(member1, member2) ==
  /\ LET out == HeadToHead(conn, member1, member2) IN
     ret' = [op |-> "head_to_head", player1 |-> member1, player2 |-> member2,
             status |-> out.status, title |-> out.title,
             value |-> out.value]
  /\ UNCHANGED <<conn, disk, aborted, now, tasks, history>>

MemberIds == {guild_members[i].id : i \in DOMAIN guild_members}

\* ann beats bob, dan beats ann, a four-player game ann bob cat dan, and a
\* three-player form that names ann twice (ann, Annie, cat)
StatSubmissions ==
  { Submission("1v1", "name", 1, 2, 0, "again", "own", 0, <<>>, TRUE),
    Submission("1v1", "name", 4, 2, 0, "again", "own", 0, <<>>, TRUE),
    Submission("multiplayer", "name", 1, 4, 0, "again", "own", 0, <<>>, TRUE),
    Submission("multiplayer", "name", 1, 3, 2, "again", "own", 0, <<>>, TRUE) }

NextStats ==
  \/ \E sub \in StatSubmissions : log_game(sub, 0, MaxPlayed)
  \/ get_leaderboard
  \/ \E discord_id \in MemberIds, tie \in TieOrders :
       get_player_stats(discord_id, tie)
  \/ \E member1, member2 \in MemberIds : head_to_head(member1, member2)

SpecStats == Init /\ [][NextStats]_vars

C12_LeaderboardEntries ==
  ret.op = "get_leaderboard" =>
    /\ \A n \in DOMAIN ret.stats : ret.stats[n].player_id \in DOMAIN conn.players
    /\ \A p \in DOMAIN conn.players :
         LET entries == {n \in DOMAIN ret.stats : ret.stats[n].player_id = p}
             rows    == RowsOfPlayer(conn, p)
             won     == {i \in rows : conn.game_placements[i].placement = 1}
         IN  /\ Cardinality(entries) = IF rows = {} THEN 0 ELSE 1
             /\ \A n \in entries :
                  /\ ret.stats[n].total_games = Cardinality(rows)
                  /\ ret.stats[n].wins = Cardinality(won)
                  /\ ret.stats[n].win_rate.num * Cardinality(rows)
                       = Cardinality(won) * 100 * ret.stats[n].win_rate.den

\* one four-player game placed 1,2,3,4: 3, 2, 1, 0 points, the winner at
\* 100% and the others at 0%
C12_Witness ==
  /\ ret.op = "get_leaderboard"
  /\ Len(conn.games) = 1
  /\ Len(ret.stats) = 4
  /\ [n \in 1..4 |-> ret.stats[n].points] = <<3, 2, 1, 0>>
  /\ [n \in 1..4 |-> ret.stats[n].wins] = <<1, 0, 0, 0>>
  /\ ret.stats[1].win_rate = [num |-> 100, den |-> 1]
  /\ \A n \in 2..4 : ret.stats[n].win_rate = [num |-> 0, den |-> 1]

\* C14: get_player_stats returns None exactly for the members that have no
\* placement row, whatever /log did before.
C14_NullUnlessRecorded ==
  ret.op = "get_player_stats" =>
    ( ret.status = "none" <=>
        ~ \E i \in DOMAIN conn.game_placements :
            /\ conn.game_placements[i].player_id \in DOMAIN conn.players
            /\ conn.players[conn.game_placements[i].player_id].discord_id
                 = ret.discord_id )

\* C15: a player for whom get_player_stats returned a value is on the
\* leaderboard, with the same total_games, wins, points and win_rate, and
\* a player for whom it returned None is not.
C15_LeaderboardAgreesWithStats ==
  ret.op = "get_player_stats" =>
    LET board   == GetLeaderboard(conn)
        entries == {n \in DOMAIN board :
                      conn.players[board[n].player_id].discord_id = ret.discord_id}
    IN  /\ ret.status = "none" => entries = {}
        /\ ret.status = "ok" =>
             /\ entries # {}
             /\ \A n \in entries :
                  /\ board[n].total_games = ret.value.total_games
                  /\ board[n].wins = ret.value.wins
                  /\ board[n].points = ret.value.points
                  /\ board[n].win_rate = ret.value.win_rate

(***************************************************************************)
(* SpecStreak: 1v1 games between ann and bob and between dan and ann, a    *)
(* second passing before a game or not, and /stats of ann and of bob.      *)
(***************************************************************************)
StreakSubmissions ==
  { Submission("1v1", "name", first, 2, 0, "again", "own", 0, <<>>, TRUE) :
      first \in {1, 4} }

NextStreak ==
  \/ \E sub \in StreakSubmissions, dt \in {0, 1} : log_game(sub, dt, MaxStreak)
  \/ \E discord_id \in {"100", "200"}, tie \in TieOrders :
       get_player_stats(discord_id, tie)

SpecStreak == Init /\ [][NextStreak]_vars

C13_PlayedAt(i) == conn.games[conn.game_placements[i].game_id].played_at

\* the player's wins played after the player's latest non-win
C13_WinsSince(rows, or_at) ==
  LET lost == {i \in rows : conn.game_placements[i].placement # 1} IN
  {i \in rows :
     /\ conn.game_placements[i].placement = 1
     /\ \A l \in lost :
          \/ C13_PlayedAt(i) > C13_PlayedAt(l)
          \/ or_at /\ C13_PlayedAt(i) = C13_PlayedAt(l)}

\* C13: current_streak is the number of the player's games, latest
\* played_at first, before the first one not won: the wins played after
\* the latest non-win, and of the wins sharing its played_at as many as
\* the order of the tied rows puts first.
C13_CurrentStreak ==
  (ret.op = "get_player_stats" /\ ret.status = "ok") =>
    LET rows == RowsOfPlayer(conn, ret.value.player_id) IN
    /\ Cardinality(C13_WinsSince(rows, FALSE)) <= ret.value.current_streak
    /\ ret.value.current_streak <= Cardinality(C13_WinsSince(rows, TRUE))

\* four games at four times, latest first: win, win, loss, win; streak 2
C13_Witness ==
  /\ ret.op = "get_player_stats" /\ ret.status = "ok"
  /\ ret.value.current_streak = 2
  /\ LET rows == RowsOfPlayer(conn, ret.value.player_id) IN
     /\ Cardinality(rows) = 4
     /\ \E a, b, c, d \in rows :
          /\ C13_PlayedAt(a) > C13_PlayedAt(b)
          /\ C13_PlayedAt(b) > C13_PlayedAt(c)
          /\ C13_PlayedAt(c) > C13_PlayedAt(d)
          /\ conn.game_placements[a].placement = 1
          /\ conn.game_placements[b].placement = 1
          /\ conn.game_placements[c].placement # 1
          /\ conn.game_placements[d].placement = 1

(***************************************************************************)
(* SpecDecks: 1v1 games that ann wins against bob with Atraxa or with      *)
(* Urza and loses to dan with Urza, and /stats of ann and of dan.          *)
(***************************************************************************)
DeckSubmissions ==
  { Submission("1v1", "name", 1, 2, 0, "again", "own", 0, <<>>, TRUE),
    Submission("1v1", "name", 1, 2, 0, "again", "next", 0, <<>>, TRUE),
    Submission("1v1", "name", 4, 2, 0, "again", "own", 0, <<>>, TRUE) }

NextDecks ==
  \/ \E sub \in DeckSubmissions : log_game(sub, 0, MaxDecked)
  \/ \E discord_id \in {"100", "400"}, tie \in TieOrders :
       get_player_stats(discord_id, tie)

SpecDecks == Init /\ [][NextDecks]_vars

\* the placement rows of a player with a deck, and those won
C16_Games(p, d) ==
  {i \in DOMAIN conn.game_placements :
     conn.game_placements[i].player_id = p /\ conn.game_placements[i].deck_id = d}

C16_Won(p, d) == {i \in C16_Games(p, d) : conn.game_placements[i].placement = 1}

C16_Qualifying(p) ==
  {d \in DOMAIN conn.decks :
     conn.decks[d].player_id = p /\ Cardinality(C16_Games(p, d)) >= 3}

\* C16: best_deck is None when the player has no deck with 3 games or
\* more; otherwise it names one of the player's decks with 3 games or more
\* whose wins/games no other such deck of the player exceeds.
C16_BestDeck ==
  (ret.op = "get_player_stats" /\ ret.status = "ok") =>
    LET p == ret.value.player_id IN
    IF C16_Qualifying(p) = {}
      THEN ret.value.best_deck = NoText
      ELSE \E d \in C16_Qualifying(p) :
             /\ conn.decks[d].commander_name = ret.value.best_deck
             /\ \A e \in C16_Qualifying(p) :
                  Cardinality(C16_Won(p, e)) * Cardinality(C16_Games(p, d))
                    <= Cardinality(C16_Won(p, d)) * Cardinality(C16_Games(p, e))

\* two decks of the player with 3 games each and different win rates
C16_Witness ==
  /\ ret.op = "get_player_stats" /\ ret.status = "ok"
  /\ ret.value.best_deck # NoText
  /\ LET p == ret.value.player_id IN
     \E d, e \in C16_Qualifying(p) :
       /\ conn.decks[d].commander_name = ret.value.best_deck
       /\ Cardinality(C16_Won(p, e)) * Cardinality(C16_Games(p, d))
            < Cardinality(C16_Won(p, d)) * Cardinality(C16_Games(p, e))

\* C17: the answer for (A, B) and the answer for (B, A) on the same store
\* mirror each other: player1_wins and player2_wins swapped, games_together
\* equal, the 1v1 record swapped.
C17_HeadToHeadSymmetric ==
  (ret.op = "head_to_head" /\ ret.status = "ok") =>
    LET back == HeadToHead(conn, ret.player2, ret.player1) IN
    /\ back.status = "ok"
    /\ ret.value.player1_wins = back.value.player2_wins
    /\ ret.value.player2_wins = back.value.player1_wins
    /\ ret.value.games_together = back.value.games_together
    /\ ret.value.one_v_one_record[1] = back.value.one_v_one_record[2]
    /\ ret.value.one_v_one_record[2] = back.value.one_v_one_record[1]

\* two players with a 1v1 game and another game together, unequal wins
C17_Witness ==
  /\ ret.op = "head_to_head" /\ ret.status = "ok"
  /\ ret.value.games_together >= 2
  /\ ret.value.player1_wins < ret.value.player2_wins
  /\ ret.value.one_v_one_record # <<0, 0>>
  /\ ret.value.one_v_one_record[2] < ret.value.player2_wins

\* the players rows of a member, and the games a member has a placement in
C18_Known(discord_id) ==
  {p \in DOMAIN conn.players : conn.players[p].discord_id = discord_id}

C18_Played(discord_id, placements) ==
  {conn.game_placements[i].game_id :
     i \in {j \in DOMAIN conn.game_placements :
              /\ conn.game_placements[j].player_id \in C18_Known(discord_id)
              /\ conn.game_placements[j].placement \in placements}}

C18_Together(a, b, game_types) ==
  {g \in C18_Played(a, 1..4) \cap C18_Played(b, 1..4) :
     g \in DOMAIN conn.games /\ conn.games[g].game_type \in game_types}

\* C18: for two different members, the answer is None when one of them has
\* no players row; otherwise games_together is the number of games both
\* have a placement in, player1_wins and player2_wins the numbers of those
\* games that the first and the second won, and the 1v1 record the same
\* restricted to the games of type 1v1.
C18_HeadToHeadValues ==
  (ret.op = "head_to_head" /\ ret.player1 # ret.player2) =>
    LET a == ret.player1
        b == ret.player2
    IN  /\ ret.status = "none" <=> (C18_Known(a) = {} \/ C18_Known(b) = {})
        /\ ret.status = "ok" =>
             /\ ret.value.games_together
                  = Cardinality(C18_Together(a, b, GameTypes))
             /\ ret.value.player1_wins
                  = Cardinality(C18_Together(a, b, GameTypes) \cap C18_Played(a, {1}))
             /\ ret.value.player2_wins
                  = Cardinality(C18_Together(a, b, GameTypes) \cap C18_Played(b, {1}))
             /\ ret.value.one_v_one_record
                  = << Cardinality(C18_Together(a, b, {"1v1"}) \cap C18_Played(a, {1})),
                       Cardinality(C18_Together(a, b, {"1v1"}) \cap C18_Played(b, {1})) >>

\* two members with a game together that a third won, besides games that
\* only one of them played
C18_Witness ==
  /\ ret.op = "head_to_head" /\ ret.status = "ok"
  /\ ret.value.games_together >= 1
  /\ ret.value.games_together > ret.value.player1_wins + ret.value.player2_wins
  /\ ret.value.games_together < Len(conn.games)
  /\ C18_Played(ret.player1, 1..4) # C18_Played(ret.player2, 1..4)

\* C19: /headtohead with the same member twice is answered with the error
\* "Invalid Comparison" and no statistics.
C19_SelfComparisonRejected ==
  (ret.op = "head_to_head" /\ ret.player1 = ret.player2) =>
    /\ ret.status = "rejected"
    /\ ret.title = "Invalid Comparison"
    /\ ret.value = NoStats

\* the member compared with themselves has games
C19_Witness ==
  /\ ret.op = "head_to_head" /\ ret.player1 = ret.player2
  /\ ret.status = "rejected"
  /\ C18_Played(ret.player1, {1}) # {}
  /\ C18_Played(ret.player1, 2..4) # {}

(***************************************************************************)
(* SpecTopDecks: four-player games one after the other and /deckstats     *)
(* without a commander in between.  The four members keep their commander  *)
(* for BlockLen games and then all change to a new one; the seating starts *)
(* from the first member in the first game of a block and from the first   *)
(* or the last member in the others.  The first game may instead be a 1v1  *)
(* game of two members who play the same commander.                        *)
(***************************************************************************)
MaxRanked == 9

BlockLen == 3

BlockLetters == <<"K", "L", "M", "N", "O", "P">>

SeatLetters == <<"a", "b", "c", "d">>

\* the commander member m plays in the block of game number k
BlockCommander(k, m) ==
  <<BlockLetters[((k - 1) \div BlockLen) + 1], SeatLetters[m]>>

TableSubmission(k, first) ==
  [ game_type     |-> "multiplayer",
    players       |-> [i \in 1..4 |-> <<"name", Handle[MemberAt(first, i)]>>],
    decks         |-> [i \in 1..4 |-> BlockCommander(k, MemberAt(first, i))],
    win_condition |-> "Combo",
    duration      |-> <<>>,
    guild         |-> TRUE ]

MirrorSubmission(k) ==
  [ game_type     |-> "1v1",
    players       |-> [i \in 1..2 |-> <<"name", Handle[i]>>],
    decks         |-> [i \in 1..2 |-> BlockCommander(k, 1)],
    win_condition |-> "Combo",
    duration      |-> <<>>,
    guild         |-> TRUE ]

RankedSubmissions(k) ==
  {TableSubmission(k, first) :
     first \in (IF k % BlockLen = 1 THEN {1} ELSE {1, 4})}
    \cup (IF k = 1 THEN {MirrorSubmission(k)} ELSE {})

\* Stats.deck_stats with commander = None: db.get_deck_stats(None)
get_deck_stats(tie) ==
  /\ ret' = [op |-> "get_deck_stats", status |-> "ok",
             decks |-> GetTopDecks(conn, tie)]
  /\ UNCHANGED <<conn, disk, aborted, now, tasks, history>>

NextTopDecks ==
  \/ \E sub \in RankedSubmissions(Len(conn.games) + 1) :
       log_game(sub, 0, MaxRanked)
  \/ \E tie \in TieOrders : get_deck_stats(tie)

SpecTopDecks == Init /\ [][NextTopDecks]_vars

\* the placement rows of the decks with a commander name, the games they
\* belong to, and the wins per row
C20_Rows(name) ==
  {i \in DOMAIN conn.game_placements :
     /\ conn.game_placements[i].deck_id \in DOMAIN conn.decks
     /\ conn.decks[conn.game_placements[i].deck_id].commander_name = name}

C20_Games(name) ==
  {conn.game_placements[i].game_id : i \in C20_Rows(name)}

C20_Rate(name) ==
  Frac(Cardinality({i \in C20_Rows(name) : conn.game_placements[i].placement = 1}),
       Cardinality(C20_Rows(name)))

C20_Names == {conn.decks[d].commander_name : d \in DOMAIN conn.decks}

C20_Returned == {ret.decks[n].commander_name : n \in DOMAIN ret.decks}

C20_AtMostTen ==
  ret.op = "get_deck_stats" => Len(ret.decks) <= 10

C20_Ordered ==
  ret.op = "get_deck_stats" =>
    \A m, n \in DOMAIN ret.decks :
       m < n => ~ FracLess(C20_Rate(ret.decks[m].commander_name),
                           C20_Rate(ret.decks[n].commander_name))

C20_NoBetterOmitted ==
  ret.op = "get_deck_stats" =>
    \A name \in C20_Names \ C20_Returned :
       Cardinality(C20_Games(name)) >= 3 =>
         \A n \in DOMAIN ret.decks :
            ~ FracLess(C20_Rate(ret.decks[n].commander_name), C20_Rate(name))

C20_EachHasThreeRows ==
  ret.op = "get_deck_stats" =>
    \A n \in DOMAIN ret.decks :
       Cardinality(C20_Rows(ret.decks[n].commander_name)) >= 3

\* C20: /deckstats without a commander returns at most 10 entries, each a
\* commander name with at least 3 recorded games, in non-increasing order
\* of win rate, and no commander with at least 3 games that is left out
\* has a strictly higher win rate than a returned one.
C20_TopDecks ==
  ret.op = "get_deck_stats" =>
    /\ Len(ret.decks) <= 10
    /\ \A n \in DOMAIN ret.decks :
         Cardinality(C20_Games(ret.decks[n].commander_name)) >= 3
    /\ \A m, n \in DOMAIN ret.decks :
         m < n => ~ FracLess(C20_Rate(ret.decks[m].commander_name),
                             C20_Rate(ret.decks[n].commander_name))
    /\ \A name \in C20_Names \ C20_Returned :
         Cardinality(C20_Games(name)) >= 3 =>
           \A n \in DOMAIN ret.decks :
              ~ FracLess(C20_Rate(ret.decks[n].commander_name), C20_Rate(name))

\* more than ten commanders have three games, with different win rates
C20_Limited ==
  /\ ret.op = "get_deck_stats"
  /\ Len(ret.decks) = 10
  /\ Cardinality({name \in C20_Names : Cardinality(C20_Games(name)) >= 3}) > 10
  /\ \E m, n \in DOMAIN ret.decks : ret.decks[m].win_rate # ret.decks[n].win_rate

(***************************************************************************)
(* SpecRecent: /log forms one after the other, in the same second as the   *)
(* game before or a second later, and /recentgames in between.             *)
(***************************************************************************)
MaxRecent == 11

\* variant: the count as given
ClampCount_AsGiven(count) == count

\* count = max(1, min(count, 10))
ClampCount(count) ==
  LET low == IF count < 10 THEN count ELSE 10 IN
  IF 1 > low THEN 1 ELSE low

\* Database.get_recent_games: ORDER BY g.played_at DESC LIMIT ?, and the
\* placements query for each game
GetRecentGames(db, limit, tie) ==
  LET ids   == DOMAIN db.games
      order == Take(OrderByDesc(ids, [g \in ids |-> Frac(db.games[g].played_at, 1)], tie),
                    limit)
  IN  [n \in DOMAIN order |->
         [ id        |-> order[n],
           game_type |-> db.games[order[n]].game_type,
           played_at |-> db.games[order[n]].played_at,
           players   |-> GamePlayers(db, order[n]) ]]

\* Stats.recent_games
RecentGames(db, count, tie) ==
  LET games == GetRecentGames(db, ClampCount(count), tie) IN
  IF games = <<>>
    THEN [status |-> "none", title |-> "Recent Games", games |-> games]
    ELSE [status |-> "ok", title |-> "Last Game(s)", games |-> games]

recent_games(count, tie) ==
  /\ LET out == RecentGames(conn, count, tie) IN
     ret' = [op |-> "recent_games", count |-> count, status |-> out.status,
             title |-> out.title, games |-> out.games]
  /\ UNCHANGED <<conn, disk, aborted, now, tasks, history>>

Counts == {0, 3, 10, 11}

\* game k: two players when k is odd, three when it is even
RecentSubmission(k) ==
  IF k % 2 = 1
    THEN Submission("1v1", "name", 1, 2, 0, "again", "own", 0, <<>>, TRUE)
    ELSE Submission("multiplayer", "name", 2, 3, 0, "again", "own", 0, <<>>, TRUE)

\* the first games may share their second, the later ones do not
RecentDelays(k) == IF k <= 3 THEN {0, 1} ELSE {1}

NextRecent ==
  \/ \E dt \in RecentDelays(Len(conn.games) + 1) :
       log_game(RecentSubmission(Len(conn.games) + 1), dt, MaxRecent)
  \/ \E count \in Counts, tie \in TieOrders : recent_games(count, tie)

SpecRecent == Init /\ [][NextRecent]_vars

C21_Clamped(count) ==
  IF count < 1 THEN 1 ELSE IF count > 10 THEN 10 ELSE count

C21_Min(a, b) == IF a < b THEN a ELSE b

\* C21: /recentgames returns min(count clamped into 1..10, number of
\* games) different games in non-increasing order of played_at, no game
\* left out was played later than a returned one, and each returned game
\* lists all its placements in ascending order.
C21_RecentGames ==
  ret.op = "recent_games" =>
    LET games == ret.games
        ids   == {games[n].id : n \in DOMAIN games}
    IN  /\ Len(games) = C21_Min(C21_Clamped(ret.count), Len(conn.games))
        /\ Cardinality(ids) = Len(games)
        /\ ids \subseteq DOMAIN conn.games
        /\ \A m, n \in DOMAIN games :
             m < n => conn.games[games[m].id].played_at
                        >= conn.games[games[n].id].played_at
        /\ \A g \in DOMAIN conn.games \ ids : \A n \in DOMAIN games :
             conn.games[g].played_at <= conn.games[games[n].id].played_at
        /\ \A n \in DOMAIN games :
             /\ Len(games[n].players)
                  = Cardinality({i \in DOMAIN conn.game_placements :
                                   conn.game_placements[i].game_id = games[n].id})
             /\ \A i, j \in DOMAIN games[n].players :
                  i < j => games[n].players[i].placement
                             < games[n].players[j].placement

\* more than ten games, some in the same second, and a count above 10
C21_Witness ==
  /\ ret.op = "recent_games"
  /\ ret.count > 10
  /\ Len(conn.games) > 10
  /\ Len(ret.games) = 10
  /\ \E g, h \in DOMAIN conn.games :
       g # h /\ conn.games[g].played_at = conn.games[h].played_at
  /\ \E n \in DOMAIN ret.games : Len(ret.games[n].players) = 3

(***************************************************************************)
(* SpecNames: /addstereotype, one command after the other.                 *)
(***************************************************************************)
MaxNames == 4

LongName == [i \in 1..101 |-> "x"]

\* Stereotypes.add_stereotype: len(name) > 100, len(name) < 3, then
\* db.add_stereotype(name), which returns a Stereotype exactly when its
\* INSERT succeeded
AddStereotypeCommand(c, d, name) ==
  IF Len(name) > 100
    THEN [conn |-> c, disk |-> d, status |-> "rejected", title |-> "Name Too Long"]
  ELSE IF Len(name) < 3
    THEN [conn |-> c, disk |-> d, status |-> "rejected", title |-> "Name Too Short"]
  ELSE LET stereotype == AddStereotype(c, d, name) IN
       IF InsertStereotype(c, strip(name)).ok
         THEN [conn |-> stereotype.conn, disk |-> stereotype.disk,
               status |-> "ok", title |-> "Stereotype Added"]
         ELSE [conn |-> stereotype.conn, disk |-> stereotype.disk,
               status |-> "exists", title |-> "Already Exists"]

add_stereotype_command(name, max_names) ==
  LET out == AddStereotypeCommand(conn, disk, name) IN
  /\ Len(out.conn.stereotypes) <= Len(DEFAULT_STEREOTYPES) + max_names
  /\ conn' = out.conn
  /\ disk' = out.disk
  /\ ret' = [op |-> "addstereotype", name |-> name, status |-> out.status,
             title |-> out.title]
  /\ UNCHANGED <<aborted, now, tasks, history>>

\* what members type: a name, the same with blanks around it, one seeded
\* already, short names with and without blanks, blanks only, a long name
StereotypeInputs ==
  { <<"R", "a", "m", "p">>, Ramp, <<"R", "a", "m", "p", " ", " ">>,
    DEFAULT_STEREOTYPES[2],
    <<"a", "b", "c">>, <<"a", "b">>, <<" ", " ", "a", " ", " ">>,
    <<" ", " ", " ">>, LongName }

NextNames ==
  \E name \in StereotypeInputs : add_stereotype_command(name, MaxNames)

SpecNames == Init /\ [][NextNames]_vars

\* C22: no name is in two rows of stereotypes, and add_stereotype with a
\* name that, trimmed, is already stored does not raise, returns None and
\* leaves the connection and the file as they are.
C22_DuplicateNameIsNull ==
  /\ \A i, j \in DOMAIN conn.stereotypes :
       conn.stereotypes[i] = conn.stereotypes[j] => i = j
  /\ \A name \in StereotypeInputs :
       (\E i \in DOMAIN conn.stereotypes : conn.stereotypes[i] = strip(name)) =>
          LET out == AddStereotype(conn, disk, name) IN
          /\ ~ out.raised
          /\ out.conn = conn
          /\ out.disk = disk
          /\ out.value = None

\* a name was added and then given again with blanks around it
C22_Witness ==
  /\ ret.op = "addstereotype"
  /\ ret.status = "exists"
  /\ ret.name # strip(ret.name)
  /\ Len(conn.stereotypes) > Len(DEFAULT_STEREOTYPES)
  /\ \E i \in DOMAIN conn.stereotypes :
       i > Len(DEFAULT_STEREOTYPES) /\ conn.stereotypes[i] = strip(ret.name)

\* C23: every stored stereotype name has, trimmed, between 3 and 100
\* characters.
C23_StoredNamesInRange ==
  \A i \in DOMAIN conn.stereotypes :
     /\ Len(strip(conn.stereotypes[i])) >= 3
     /\ Len(strip(conn.stereotypes[i])) <= 100

(***************************************************************************)
(* SpecShame: callers of assign_stereotypes, one call at a time, after or  *)
(* before a /log form, and the two stereotype counts read in between.      *)
(***************************************************************************)
MaxShame == 4

\* the game_stereotypes rows that survive JOIN players p ON gs.player_id =
\* p.id JOIN stereotypes s ON gs.stereotype_id = s.id
ShameRows(db) ==
  {i \in DOMAIN db.game_stereotypes :
     /\ db.game_stereotypes[i].player_id \in DOMAIN db.players
     /\ db.game_stereotypes[i].stereotype_id \in DOMAIN db.stereotypes}

\* GROUP BY p.id, s.id: each group by its first row
ShameGroups(db, rows) ==
  {i \in rows : \A j \in rows :
     (/\ db.game_stereotypes[j].player_id = db.game_stereotypes[i].player_id
      /\ db.game_stereotypes[j].stereotype_id = db.game_stereotypes[i].stereotype_id)
       => i <= j}

\* COUNT(*) of the group of row i
ShameCount(db, rows, i) ==
  Cardinality({j \in rows :
     /\ db.game_stereotypes[j].player_id = db.game_stereotypes[i].player_id
     /\ db.game_stereotypes[j].stereotype_id = db.game_stereotypes[i].stereotype_id})

\* Database.get_stereotype_leaderboard: ORDER BY count DESC
GetStereotypeLeaderboard(db, tie) ==
  LET rows   == ShameRows(db)
      groups == ShameGroups(db, rows)
      order  == OrderByDesc(groups,
                  [i \in groups |-> Frac(ShameCount(db, rows, i), 1)], tie)
  IN  [n \in DOMAIN order |->
         [ username        |-> db.players[db.game_stereotypes[order[n]].player_id].username,
           stereotype_name |-> db.stereotypes[db.game_stereotypes[order[n]].stereotype_id],
           count           |-> ShameCount(db, rows, order[n]) ]]

\* Database.get_player_stereotypes: [] without a players row, else the
\* player's rows GROUP BY s.id ORDER BY count DESC
GetPlayerStereotypes(db, discord_id, tie) ==
  LET player == SelectPlayer(db, discord_id)
      rows   == {i \in DOMAIN db.game_stereotypes :
                   /\ db.game_stereotypes[i].player_id = player
                   /\ db.game_stereotypes[i].stereotype_id \in DOMAIN db.stereotypes}
      groups == ShameGroups(db, rows)
      order  == OrderByDesc(groups,
                  [i \in groups |-> Frac(ShameCount(db, rows, i), 1)], tie)
  IN  IF player = 0
        THEN <<>>
        ELSE [n \in DOMAIN order |->
                [ name  |-> db.stereotypes[db.game_stereotypes[order[n]].stereotype_id],
                  count |-> ShameCount(db, rows, order[n]) ]]

\* a caller of Database.assign_stereotypes, while the table stays within
\* max_rows rows
assign_stereotypes_call(game_id, player_id, stereotype_ids, max_rows) ==
  LET out == AssignStereotypes(conn, disk, game_id, player_id, stereotype_ids) IN
  /\ Len(conn.game_stereotypes) + Len(stereotype_ids) <= max_rows
  /\ conn' = out.conn
  /\ disk' = out.disk
  /\ ret' = [op |-> "assign_stereotypes",
             status |-> IF out.raised THEN "raised" ELSE "ok",
             game_id |-> game_id, player_id |-> player_id,
             stereotype_ids |-> stereotype_ids]
  /\ UNCHANGED <<aborted, now, tasks, history>>

get_stereotype_leaderboard(tie) ==
  /\ ret' = [op |-> "get_stereotype_leaderboard", status |-> "ok",
             shame |-> GetStereotypeLeaderboard(conn, tie)]
  /\ UNCHANGED <<conn, disk, aborted, now, tasks, history>>

get_player_stereotypes(discord_id, tie) ==
  /\ ret' = [op |-> "get_player_stereotypes", status |-> "ok",
             discord_id |-> discord_id,
             shame |-> GetPlayerStereotypes(conn, discord_id, tie)]
  /\ UNCHANGED <<conn, disk, aborted, now, tasks, history>>

\* game 1 is the only game there can be, players 1 and 2 its players
ShameCalls ==
  {<<1, 1>>, <<1, 2>>, <<2, 1>>} \X {<<1>>, <<2, 2>>}

NextShame ==
  \/ log_game(Submission("1v1", "name", 1, 2, 0, "again", "own", 0, <<>>, TRUE),
              0, 1)
  \/ \E call \in ShameCalls :
       assign_stereotypes_call(call[1][1], call[1][2], call[2], MaxShame)
  \/ \E tie \in TieOrders : get_stereotype_leaderboard(tie)
  \/ \E discord_id \in {"100", "200"} : get_player_stereotypes(discord_id, "asc")

SpecShame == Init /\ [][NextShame]_vars

\* how often a stereotype is in a list of ids
RECURSIVE C24_Times(_, _)
C24_Times(stereotype_ids, s) ==
  IF stereotype_ids = <<>> THEN 0
  ELSE (IF Head(stereotype_ids) = s THEN 1 ELSE 0) + C24_Times(Tail(stereotype_ids), s)

\* the count the stereotype leaderboard and the player's own list report
\* for a player and a stereotype, 0 when they have no entry
RECURSIVE C24_Sum(_)
C24_Sum(counts) ==
  IF counts = <<>> THEN 0 ELSE Head(counts) + C24_Sum(Tail(counts))

C24_Listed(db, p, s) ==
  LET shame == GetStereotypeLeaderboard(db, "asc") IN
  C24_Sum([n \in DOMAIN shame |->
             IF /\ shame[n].username = db.players[p].username
                /\ shame[n].stereotype_name = db.stereotypes[s]
               THEN shame[n].count ELSE 0])

C24_Own(db, p, s) ==
  LET shame == GetPlayerStereotypes(db, db.players[p].discord_id, "asc") IN
  C24_Sum([n \in DOMAIN shame |->
             IF shame[n].name = db.stereotypes[s] THEN shame[n].count ELSE 0])

\* C24: an assign_stereotypes call appends one game_stereotypes row per
\* element of its list, in order and with repetitions, and changes
\* nothing else; both counts of the player and each listed stereotype grow
\* by the number of times the stereotype is in the list, and by twice
\* that when the same call is made once more.
C24_AssignIsAdditive ==
  [][ret'.op = "assign_stereotypes" =>
       LET ids   == ret'.stereotype_ids
           p     == ret'.player_id
           again == AssignStereotypes(conn', disk', ret'.game_id, p, ids).conn
       IN  /\ conn'.game_stereotypes
                = conn.game_stereotypes \o
                    [i \in DOMAIN ids |->
                       [ game_id       |-> ret'.game_id,
                         player_id     |-> p,
                         stereotype_id |-> ids[i] ]]
           /\ conn' = [conn EXCEPT !.game_stereotypes = conn'.game_stereotypes]
           /\ \A q \in DOMAIN conn.players, s \in DOMAIN conn.stereotypes :
                LET more == IF q = p THEN C24_Times(ids, s) ELSE 0 IN
                /\ C24_Listed(conn', q, s) = C24_Listed(conn, q, s) + more
                /\ C24_Own(conn', q, s) = C24_Own(conn, q, s) + more
                /\ C24_Listed(again, q, s) = C24_Listed(conn, q, s) + 2 * more
                /\ C24_Own(again, q, s) = C24_Own(conn, q, s) + 2 * more
  ]_vars

\* the same call with a repeated stereotype was made twice for a player
C24_Witness ==
  /\ ret.op = "assign_stereotypes"
  /\ ret.stereotype_ids = <<2, 2>>
  /\ ret.player_id \in DOMAIN conn.players
  /\ Len(conn.game_stereotypes) = 4
  /\ \A i \in 1..4 :
       conn.game_stereotypes[i] = [ game_id       |-> ret.game_id,
                                    player_id     |-> ret.player_id,
                                    stereotype_id |-> 2 ]
  /\ C24_Listed(conn, ret.player_id, 2) = 4

\* C25: an assign_stereotypes call for a game that is not in the games
\* table raises and inserts no row.
C25_UnknownGameRaises ==
  [][(ret'.op = "assign_stereotypes" /\ ret'.game_id \notin DOMAIN conn.games) =>
       /\ ret'.status = "raised"
       /\ conn'.game_stereotypes = conn.game_stereotypes
       /\ disk'.game_stereotypes = disk.game_stereotypes
  ]_vars

\* C26: no get_or_create_player call of a /log form fails with the
\* uniqueness conflict of players.discord_id, however the statements of
\* two forms interleave.
C26_NoConflictInGetOrCreatePlayer ==
  \A t \in Tasks :
     (tasks[t].op = "on_submit" /\ tasks[t].pc = "raised") =>
        tasks[t].raised_in # "get_or_create_player"

\* the game_placements rows of a game in db
C27_Rows(db, game_id) ==
  {i \in DOMAIN db.game_placements : db.game_placements[i].game_id = game_id}

\* C27: whenever a /log form is accepted and stored, the game has one row
\* per listed player; the row with placement i is the i-th listed
\* player's, with the i-th listed deck, which that player owns; so the
\* first listed player has the only row with placement 1.
C27_ListingOrderIsPlacement ==
  \A sub \in Submissions :
     LET out == OnSubmit(conn, disk, sub, now) IN
     out.status = "ok" =>
       LET db   == out.conn
           rows == C27_Rows(db, out.game_id)
       IN  /\ Cardinality(rows) = Len(sub.players)
           /\ \A i \in DOMAIN sub.players :
                \E r \in rows :
                   LET gp == db.game_placements[r] IN
                   /\ gp.placement = i
                   /\ db.players[gp.player_id].discord_id
                        = Resolve(sub.players[i], sub.guild).discord_id
                   /\ db.decks[gp.deck_id].commander_name = strip(sub.decks[i])
                   /\ db.decks[gp.deck_id].player_id = gp.player_id
           /\ \A r \in rows :
                db.game_placements[r].placement = 1 =>
                  db.players[db.game_placements[r].player_id].discord_id
                    = Resolve(sub.players[1], sub.guild).discord_id

\* a stored four-player game listed from the second member on
C27_Witness ==
  /\ ret.op = "on_submit" /\ ret.status = "ok"
  /\ Len(conn.games) = 1
  /\ Cardinality(C27_Rows(conn, 1)) = 4
  /\ \E r \in C27_Rows(conn, 1) :
       /\ conn.game_placements[r].placement = 1
       /\ conn.players[conn.game_placements[r].player_id].discord_id = "200"
  /\ \E r \in C27_Rows(conn, 1) :
       /\ conn.game_placements[r].placement = 4
       /\ conn.players[conn.game_placements[r].player_id].discord_id = "100"

(***************************************************************************)
(* SpecViews: /log forms and the stereotype assignment that follows a      *)
(* stored game.  on_submit answers a stored game with a                    *)
(* StereotypeAssignmentView for that game and its listed players; the      *)
(* view stays usable while other forms are submitted.  A form whose        *)
(* create_game raised gets no view.                                        *)
(***************************************************************************)
MaxViewed == 2

MaxPinned == 2

\* the games that have a StereotypeAssignmentView: game.id of the stored games
ViewGames(db, failed) == DOMAIN db.games \ failed

\* PlayerSelectForStereotype: value = str(p["player_id"]) for p in player_data
ViewPlayers(db, game_id) ==
  {db.game_placements[i].player_id : i \in PlacementsOf(db, game_id)}

\* variant: options that name a stereotype one past the table
StereotypeOptions_Stale(db) == 1..(Len(db.stereotypes) + 1)

\* StereotypeSelect: value = str(s.id) for s in get_all_stereotypes()[:25];
\* the tables of the model hold fewer than 25 stereotypes
StereotypeOptions(db) == DOMAIN db.stereotypes

\* self.values: the first option, the last, or both (none selected
\* assigns nothing)
Selections(db) ==
  LET options == StereotypeOptions(db)
      last    == CHOOSE s \in options : \A t \in options : t <= s
  IN  {<<1>>, <<last>>, <<1, last>>}

\* StereotypeSelectionView.confirm with a selection
confirm(game_id, player_id, stereotype_ids) ==
  /\ game_id \in ViewGames(conn, aborted)
  /\ player_id \in ViewPlayers(conn, game_id)
  /\ stereotype_ids \in Selections(conn)
  /\ assign_stereotypes_call(game_id, player_id, stereotype_ids, MaxPinned)

\* ann and bob, and a form that lists ann twice
ViewSubmissions ==
  { Submission("1v1", "name", 1, 2, 0, "again", "own", 0, <<>>, TRUE),
    Submission("multiplayer", "name", 1, 3, 2, "again", "own", 0, <<>>, TRUE) }

NextViews ==
  \/ \E sub \in ViewSubmissions : log_game(sub, 0, MaxViewed)
  \/ \E name \in {Ramp} : add_stereotype_command(name, 1)
  \/ \E game_id \in 1..(MaxViewed + 1), player_id \in 1..4,
        stereotype_ids \in Selections(conn) :
       confirm(game_id, player_id, stereotype_ids)

SpecViews == Init /\ [][NextViews]_vars

C28_Referenced(db) ==
  /\ \A i \in DOMAIN db.game_placements :
       /\ db.game_placements[i].game_id \in DOMAIN db.games
       /\ db.game_placements[i].player_id \in DOMAIN db.players
       /\ db.game_placements[i].deck_id \in DOMAIN db.decks
  /\ \A i \in DOMAIN db.game_stereotypes :
       /\ db.game_stereotypes[i].game_id \in DOMAIN db.games
       /\ db.game_stereotypes[i].player_id \in DOMAIN db.players
       /\ db.game_stereotypes[i].stereotype_id \in DOMAIN db.stereotypes

\* C28: on the connection and in the file, every game_placements row
\* names a stored game, player and deck, and every game_stereotypes row a
\* stored game, player and stereotype, whatever /log forms and stereotype
\* assignments came before, failed forms included.
C28_ReferentialIntegrity ==
  C28_Referenced(conn) /\ C28_Referenced(disk)

\* a form failed, another was stored, and stereotypes were assigned in it,
\* one of them added by a member
C28_Witness ==
  /\ aborted # {}
  /\ ViewGames(conn, aborted) # {}
  /\ Len(disk.game_stereotypes) = 2
  /\ \E i \in DOMAIN disk.game_stereotypes :
       disk.game_stereotypes[i].stereotype_id > Len(DEFAULT_STEREOTYPES)
  /\ \E i \in DOMAIN disk.game_placements :
       disk.game_placements[i].game_id \in aborted

C29_AllComplete ==
  \A game_id \in DOMAIN conn.games : GameComplete(conn, game_id)

C29_GamesOfType(game_type) ==
  Cardinality({g \in DOMAIN conn.games : conn.games[g].game_type = game_type})

\* C29: when every stored game is complete, the points of a returned
\* leaderboard add up to 3 for each 1v1 game and 6 for each multiplayer
\* game, and its wins add up to the number of games.
C29_PointConservation ==
  (ret.op = "get_leaderboard" /\ C29_AllComplete) =>
    /\ C24_Sum([n \in DOMAIN ret.stats |-> ret.stats[n].points])
         = 3 * C29_GamesOfType("1v1") + 6 * C29_GamesOfType("multiplayer")
    /\ C24_Sum([n \in DOMAIN ret.stats |-> ret.stats[n].wins]) = Len(conn.games)

\* three complete games of both types
C29_Witness ==
  /\ ret.op = "get_leaderboard"
  /\ C29_AllComplete
  /\ Len(conn.games) = 3
  /\ C29_GamesOfType("1v1") = 2
  /\ C29_GamesOfType("multiplayer") = 1
  /\ Len(ret.stats) = 4

\* C30: for two different players with a players row, the two win counts
\* of a head-to-head answer add up to at most games_together, each half of
\* the 1v1 record is at most the win count beside it, and when the 1v1
\* games the two share are complete the two halves add up to their number.
C30_HeadToHeadBounds ==
  (ret.op = "head_to_head" /\ ret.status = "ok") =>
    LET h2h   == ret.value
        duels == C18_Together(ret.player1, ret.player2, {"1v1"})
    IN  /\ ret.player1 # ret.player2
        /\ h2h.player1_wins + h2h.player2_wins <= h2h.games_together
        /\ h2h.one_v_one_record[1] <= h2h.player1_wins
        /\ h2h.one_v_one_record[2] <= h2h.player2_wins
        /\ (\A g \in duels : GameComplete(conn, g)) =>
             h2h.one_v_one_record[1] + h2h.one_v_one_record[2] = Cardinality(duels)

\* a 1v1 game and a larger game together, the first winning both
C30_Witness ==
  /\ ret.op = "head_to_head" /\ ret.status = "ok"
  /\ ret.value.games_together = 2
  /\ ret.value.one_v_one_record = <<1, 0>>
  /\ ret.value.player1_wins = 2
  /\ C29_AllComplete

====
